---------------------------- MODULE Spec2Model ----------------------------
(***************************************************************************)
(* A model of the loglint pipeline (jacob-baker25/agentic-log-analysis):   *)
(*   ingest/nginx_parser.py  parse_nginx_log   (specification SpecParse)   *)
(*   tools/metrics.py        compute_metrics   (specification SpecMetrics) *)
(*   ingest/normalize.py     normalize_events  (specification SpecNormalize)*)
(*   the three in sequence, as the scripts run them (SpecPipeline)         *)
(*   the ranking functions of metrics.py called alone (SpecRank)           *)
(*                                                                         *)
(* Text is modelled as sequences of one-character strings where the code   *)
(* inspects characters (status, bytes), and as strings where it only       *)
(* copies or compares them (ip, method, path).  Timestamps are wall-clock  *)
(* seconds of one day in the file's single timezone.  Rates are kept as    *)
(* integers in millionths (0.4 is 400000), the six decimal places the     *)
(* code rounds to.                                                         *)
(*                                                                         *)
(* pandas sorts with kind="quicksort" unless told otherwise, which is not  *)
(* stable: wherever the code sorts, the order of equal keys is a           *)
(* nondeterministic choice here.                                           *)
(***************************************************************************)
EXTENDS Integers, Sequences, FiniteSets, TLC

VARIABLES
    \* ---- parse_nginx_log ----
    f,              \* the lines of the file read so far, in file order
    max_bad_lines,  \* the keyword argument of parse_nginx_log
    rows,           \* rows: List[Dict]
    bad_lines,      \* bad_lines: int
    ppc,            \* where parse_nginx_log is: "reading", "abort", "empty", "returned"
    parsed,         \* the DataFrame parse_nginx_log returns
    \* ---- compute_metrics ----
    df,             \* the normalized event table handed to compute_metrics
    mpc,            \* where compute_metrics is: "idle", "input", "raised", "returned"
    metrics,        \* the summary compute_metrics returns
    \* ---- normalize_events ----
    batch,          \* the rows of the DataFrame handed to normalize_events
    columns,        \* the columns of that DataFrame
    drop_private_ips, \* the keyword argument of normalize_events
    npc,            \* where normalize_events is: "idle", "input", "raised", "returned"
    report,         \* the NormalizeReport it returns (its rows are df)
    again,          \* the result of normalize_events called on its own output
    \* ---- a function of metrics.py called alone ----
    call,           \* the call made, with its arguments and its result
    \* ---- the pipeline run once more on the same file ----
    rerun,          \* the rows, the report and the summary of the second run
    \* ---- scripts/validate_all.py ----
    args,           \* args = parser.parse_args(): runs and skip_stability
    step_no,        \* the position of the for loop in steps
    ran,            \* the steps run_step has started, with their return codes
    failures,       \* failures: List[str]
    vpc,            \* where main is: "idle", "loop", "summary", "exited"
    exit_code,      \* what main returns
    \* ---- scripts/validate_metrics.py and scripts/generate_report.py ----
    spc,            \* validate_metrics.py after compute_metrics: "idle", "KeyError", "exited"
    metrics_json,   \* the content of artifacts/metrics.json, None while there is no file
    gpc             \* generate_report.py: "idle", "FileNotFoundError", "loaded"

parseVars == <<f, max_bad_lines, rows, bad_lines, ppc, parsed>>
metricsVars == <<df, mpc, metrics>>
normVars == <<batch, columns, drop_private_ips, npc, report, again>>
validateAllVars == <<args, step_no, ran, failures, vpc, exit_code>>
scriptVars == <<rerun, validateAllVars, spc, metrics_json, gpc>>
vars == <<f, max_bad_lines, rows, bad_lines, ppc, parsed, df, mpc, metrics,
          batch, columns, drop_private_ips, npc, report, again, call,
          rerun, args, step_no, ran, failures, vpc, exit_code,
          spc, metrics_json, gpc>>

\* None where a record is expected (an absent result, or one not yet computed).
None == [none |-> TRUE]
\* None where a string is expected; no token of the model's lines equals it.
NoneStr == "<None>"

\* No script has been started, and the pipeline has not been run a second time.
ScriptsIdle ==
    /\ rerun = None
    /\ args = [runs |-> 5, skip_stability |-> FALSE]
    /\ step_no = 1
    /\ ran = <<>>
    /\ failures = <<>>
    /\ vpc = "idle"
    /\ exit_code = 0
    /\ spc = "idle"
    /\ metrics_json = None
    /\ gpc = "idle"

\* normalize_events has not been called, and no function has been called alone
\* (nor a script started).
NormIdle ==
    /\ ScriptsIdle
    /\ batch = <<>>
    /\ columns = {}
    /\ drop_private_ips = FALSE
    /\ npc = "idle"
    /\ report = None
    /\ again = None
    /\ call = None

----------------------------------------------------------------------------
(* Bounds of the model *)

\* The longest file parse_nginx_log is given.
MaxLines == 4
\* The largest max_bad_lines the caller passes (the default, 200, is out of reach).
MaxThreshold == 2
\* The largest event table compute_metrics is given.
MaxRows == 5
\* The longest DataFrame normalize_events is given.
MaxBatch == 3
\* The largest min_requests top_ips_by_5xx and top_ips_by_4xx are called with.
MaxMinRequests == 3

----------------------------------------------------------------------------
(* Generic helpers *)

Range(s) == {s[i] : i \in 1..Len(s)}

RECURSIVE OrdersAscending(_, _)
\* Every ordering of the finite set S in which key is non-decreasing: what an
\* unstable ascending sort by key may return.
OrdersAscending(S, key) ==
    IF S = {} THEN {<<>>}
    ELSE UNION {{<<x>> \o rest : rest \in OrdersAscending(S \ {x}, key)} :
                    x \in {y \in S : \A z \in S : key[y] <= key[z]}}

\* Every ordering of S in which key is non-increasing.
OrdersDescending(S, key) == OrdersAscending(S, [x \in S |-> 0 - key[x]])

----------------------------------------------------------------------------
(* nginx_parser.py *)

Digits == {"0", "1", "2", "3", "4", "5", "6", "7", "8", "9"}

DigitValue(c) ==
    CASE c = "0" -> 0 [] c = "1" -> 1 [] c = "2" -> 2 [] c = "3" -> 3
      [] c = "4" -> 4 [] c = "5" -> 5 [] c = "6" -> 6 [] c = "7" -> 7
      [] c = "8" -> 8 [] c = "9" -> 9

\* U+00B2 SUPERSCRIPT TWO, a character str.isdigit() accepts and int() rejects.
Superscript2 == "^2"

\* str.isdigit(): non-empty and every character a digit (the Unicode digits too).
isdigit(s) == Len(s) > 0 /\ \A i \in 1..Len(s) : s[i] \in Digits \cup {Superscript2}

\* Non-empty and every character a decimal digit: what \d+ matches, and the
\* strings int(s) returns for (it raises ValueError on a superscript).
isdecimal(s) == Len(s) > 0 /\ \A i \in 1..Len(s) : s[i] \in Digits

RECURSIVE int(_)
\* int(s) for a string of decimal digits.
int(s) ==
    IF s = <<>> THEN 0
    ELSE 10 * int(SubSeq(s, 1, Len(s) - 1)) + DigitValue(s[Len(s)])

\* A line of the file. form "blank" is a whitespace-only line; form "combined" has
\* the delimiters of the combined format around the five captured fields
\*     <ip> - - [<time>] "<request>" <status> <bytes>
\* whose texts decide whether LOG_RE matches; form "other" is any other text.
\* time is the clock reading H:M:S of the time_local field; request is the list of
\* whitespace-separated tokens inside the quotes.
Line(form, ip, time, request, status, bytes) ==
    [form |-> form, ip |-> ip, time |-> time, request |-> request,
     status |-> status, bytes |-> bytes]

T0100 == [H |-> 1, M |-> 0, S |-> 0]
T0105 == [H |-> 1, M |-> 5, S |-> 0]
TBad  == [H |-> 25, M |-> 0, S |-> 0]

GetLogin == <<"GET", "/api/login", "HTTP/1.1">>
GetHome  == <<"GET", "/home">>

\* The lines the model's files are made of.
Lines ==
    { Line("blank", "", T0100, <<>>, <<>>, <<>>),
      Line("other", "", T0100, <<>>, <<>>, <<>>),
      Line("combined", "1.1.1.1", T0105, GetLogin, <<"2","0","0">>, <<"5","1","2">>),
      Line("combined", "1.1.1.1", T0100, GetHome,  <<"5","0","0">>, <<"-">>),
      Line("combined", "2.2.2.2", T0100, GetLogin, <<"4","0","4">>, <<"a","b","c">>),
      Line("combined", "2.2.2.2", T0105, GetHome,  <<"2","0","0">>, <<"-","5">>),
      Line("combined", "2.2.2.2", T0100, GetHome,  <<"2","0","0">>, <<"1",".","5">>),
      Line("combined", "1.1.1.1", TBad,  GetHome,  <<"2","0","0">>, <<"7">>),
      Line("combined", "1.1.1.1", T0100, <<"GET">>, <<"2","0","0">>, <<"7">>),
      Line("combined", "1.1.1.1", TBad,  <<>>,     <<"2","0","0">>, <<"-">>),
      Line("combined", "1.1.1.1", T0100, GetHome,  <<"2","0","0">>, <<Superscript2>>),
      Line("combined", "1.1.1.1", T0100, GetHome,  <<"2","0">>,     <<"7">>) }

\* Mutant of IsBlank: the "if not line: continue" is missing.
IsBlank_missing(line) == FALSE

\* line.strip() is empty.
IsBlank(line) == line.form = "blank"

\* LOG_RE.match(line): \S+ for ip, [^\]]+ inside the brackets, [^"]* inside the
\* quotes, \d{3} for status, \S+ for bytes.
LOG_RE_match(line) ==
    /\ line.form = "combined"
    /\ line.ip # ""
    /\ Len(line.status) = 3 /\ isdecimal(line.status)
    /\ Len(line.bytes) > 0

\* datetime.strptime(time_str, "%d/%b/%Y:%H:%M:%S %z") raises ValueError on a
\* clock reading out of range.
strptime_ok(t) == t.H \in 0..23 /\ t.M \in 0..59 /\ t.S \in 0..61

_parse_time_nginx(t) == t.H * 3600 + t.M * 60 + t.S

\* _parse_request: (method, path), or (None, None) with fewer than two tokens.
_parse_request(request) ==
    IF Len(request) < 2 THEN <<NoneStr, NoneStr>> ELSE <<request[1], request[2]>>

\* Mutant of bytes_sent_of: a token that is not a number becomes -1.
bytes_sent_of_minus1(bytes_raw) == IF isdigit(bytes_raw) THEN int(bytes_raw) ELSE 0 - 1

\* bytes_sent = int(bytes_raw) if bytes_raw.isdigit() else 0
bytes_sent_of(bytes_raw) == IF isdigit(bytes_raw) THEN int(bytes_raw) ELSE 0

\* The dict appended to rows for a line that LOG_RE matches and that parses.
RowOf(line) ==
    [timestamp  |-> _parse_time_nginx(line.time),
     ip         |-> line.ip,
     method     |-> _parse_request(line.request)[1],
     path       |-> _parse_request(line.request)[2],
     status     |-> int(line.status),
     bytes_sent |-> bytes_sent_of(line.bytes)]

\* What the loop body does with one line: "skip" (blank), "nomatch" (LOG_RE
\* fails), "except" (an exception inside the try), "badrequest" (method or path is
\* None) or "row".
Classify(line) ==
    IF IsBlank(line) THEN "skip"
    ELSE IF ~LOG_RE_match(line) THEN "nomatch"
    ELSE IF ~strptime_ok(line.time) THEN "except"
    ELSE IF _parse_request(line.request)[1] = NoneStr
            \/ _parse_request(line.request)[2] = NoneStr THEN "badrequest"
    ELSE IF isdigit(line.bytes) /\ ~isdecimal(line.bytes) THEN "except"
    ELSE "row"

\* The branches of the loop that compare bad_lines with max_bad_lines after
\* counting the line: the "if not m" branch and the except branch do, the
\* "method is None or path_ is None" branch does not.
ChecksThreshold(outcome) == outcome \in {"nomatch", "except"}

\* One iteration of "for line_no, line in enumerate(f, start=1)".
ReadLine(line) ==
    /\ ppc = "reading"
    /\ Len(f) < MaxLines
    /\ f' = Append(f, line)
    /\ LET outcome == Classify(line) IN
         CASE outcome = "skip" ->
                UNCHANGED <<rows, bad_lines, ppc>>
           [] outcome = "row" ->
                /\ rows' = Append(rows, RowOf(line))
                /\ UNCHANGED <<bad_lines, ppc>>
           [] OTHER ->
                /\ bad_lines' = bad_lines + 1
                /\ ppc' = IF ChecksThreshold(outcome) /\ bad_lines + 1 > max_bad_lines
                          THEN "abort" ELSE "reading"
                /\ UNCHANGED rows
    /\ UNCHANGED <<max_bad_lines, parsed>>
    /\ UNCHANGED <<metricsVars, normVars, call, scriptVars>>

\* The columns added to the sorted frame (is_4xx, is_5xx).
ParsedRow(r) ==
    [timestamp |-> r.timestamp, ip |-> r.ip, method |-> r.method, path |-> r.path,
     status |-> r.status, bytes_sent |-> r.bytes_sent,
     is_4xx |-> (r.status >= 400 /\ r.status < 500),
     is_5xx |-> (r.status >= 500 /\ r.status < 600)]

\* Mutant of SortByTimestamp: the sort is descending.
SortByTimestamp_descending(rs) ==
    OrdersDescending(1..Len(rs), [i \in 1..Len(rs) |-> rs[i].timestamp])

\* df.sort_values("timestamp").reset_index(drop=True): the orders of the row
\* positions an unstable sort by timestamp may return.
SortByTimestamp(rs) ==
    OrdersAscending(1..Len(rs), [i \in 1..Len(rs) |-> rs[i].timestamp])

\* Mutant of EndOfFile: the "if df.empty: raise" is missing.
EndOfFile_unchecked ==
    /\ ppc = "reading"
    /\ ppc' = "returned"
    /\ \E order \in SortByTimestamp(rows) :
         parsed' = [k \in 1..Len(rows) |-> ParsedRow(rows[order[k]])]
    /\ UNCHANGED <<f, max_bad_lines, rows, bad_lines>>
    /\ UNCHANGED <<metricsVars, normVars, call, scriptVars>>

\* The end of the file: pd.DataFrame(rows), the empty check, the sort and the
\* derived columns.
EndOfFile ==
    /\ ppc = "reading"
    /\ IF rows = <<>>
       THEN ppc' = "empty" /\ UNCHANGED parsed
       ELSE /\ ppc' = "returned"
            /\ \E order \in SortByTimestamp(rows) :
                 parsed' = [k \in 1..Len(rows) |-> ParsedRow(rows[order[k]])]
    /\ UNCHANGED <<f, max_bad_lines, rows, bad_lines>>
    /\ UNCHANGED <<metricsVars, normVars, call, scriptVars>>

InitParse ==
    /\ f = <<>>
    /\ max_bad_lines \in 0..MaxThreshold
    /\ rows = <<>>
    /\ bad_lines = 0
    /\ ppc = "reading"
    /\ parsed = <<>>
    /\ df = <<>>
    /\ mpc = "input"
    /\ metrics = None
    /\ NormIdle

NextParse == (\E line \in Lines : ReadLine(line)) \/ EndOfFile

SpecParse == InitParse /\ [][NextParse]_vars

----------------------------------------------------------------------------
(* normalize.py: the derived columns of a normalized row *)

\* Mutant of dt_floor: the nearest multiple of freq.
dt_floor_nearest(ts, freq) == ((ts + freq \div 2) \div freq) * freq

\* Series.dt.floor(freq) on wall-clock seconds.
dt_floor(ts, freq) == (ts \div freq) * freq

\* out["status_class"], out["is_4xx"], out["is_5xx"], out["minute"].
Derive(e) ==
    [timestamp |-> e.timestamp, ip |-> e.ip, method |-> e.method, path |-> e.path,
     status |-> e.status, bytes_sent |-> e.bytes_sent,
     status_class |-> (e.status \div 100) * 100,
     is_4xx |-> (e.status >= 400 /\ e.status < 500),
     is_5xx |-> (e.status >= 500 /\ e.status < 600),
     minute |-> dt_floor(e.timestamp, 60)]

\* The six base fields of a row.
Base(r) ==
    [timestamp |-> r.timestamp, ip |-> r.ip, method |-> r.method, path |-> r.path,
     status |-> r.status, bytes_sent |-> r.bytes_sent]

----------------------------------------------------------------------------
(* metrics.py.  df[mask], the rows that satisfy a condition in the table's  *)
(* order, is SelectSeq.                                                     *)

\* The events the model's tables are made of: requests at 01:00:00, 01:04:59,
\* 01:05:00 and 01:10:00 (three clock-aligned 5-minute windows), each a server
\* error on one of two paths, a success or a client error.
Timestamps == {3600, 3899, 3900, 4200}
Requests ==
    {<<"/api/login", 500>>, <<"/home", 500>>, <<"/home", 200>>, <<"/api/login", 404>>}
Events ==
    {[timestamp |-> t, ip |-> "1.1.1.1", method |-> "GET", path |-> q[1],
      status |-> q[2], bytes_sent |-> 512] : t \in Timestamps, q \in Requests}

\* _iso(ts): the clock reading ts.isoformat() prints.
_iso(ts) == [H |-> ts \div 3600, M |-> (ts % 3600) \div 60, S |-> ts % 60]

\* Mutant of _safe_div: a zero denominator yields 1.0.
_safe_div_one(n, d) == IF d # 0 THEN <<n, d>> ELSE <<1, 1>>

\* _safe_div(n, d): the quotient as a fraction <<numerator, denominator>>, 0.0 when
\* d is 0.
_safe_div(n, d) == IF d # 0 THEN <<n, d>> ELSE <<0, 1>>

\* Mutant of round6: the quotient is cut after 6 places instead of rounded.
round6_truncated(q) == (q[1] * 1000000) \div q[2]

\* round(q, 6) in millionths: the nearest millionth, an exact half to the even one.
round6(q) ==
    LET scaled == q[1] * 1000000
        lo == scaled \div q[2]
        rem == scaled % q[2]
    IN  IF 2 * rem < q[2] THEN lo
        ELSE IF 2 * rem > q[2] THEN lo + 1
        ELSE IF lo % 2 = 0 THEN lo ELSE lo + 1

\* int(df[col].sum()) of a boolean column.
CountTrue(table, col) == Cardinality({i \in 1..Len(table) : table[i][col]})

\* The ascending order of a set of numbers (sort_index of a group index).
SortIndex(S) == CHOOSE o \in OrdersAscending(S, [x \in S |-> x]) : TRUE

\* Series.value_counts(): one entry per distinct value with its number of
\* occurrences, sorted by count descending with sort_values' default quicksort.
\* The set of the results it may return.
value_counts(values) ==
    LET S == Range(values)
        cnt == [v \in S |-> Cardinality({i \in 1..Len(values) : values[i] = v})]
    IN  {[k \in 1..Len(o) |-> [value |-> o[k], count |-> cnt[o[k]]]] :
            o \in OrdersDescending(S, cnt)}

\* Series.head(n).
head(s, n) == SubSeq(s, 1, IF Len(s) < n THEN Len(s) ELSE n)

\* _top_n(df, col, n): the results it may return.
_top_n(table, col, n) ==
    {head(vc, n) : vc \in value_counts([i \in 1..Len(table) |-> table[i][col]])}

\* _top_n_filtered(df, mask, col, n) with the mask a boolean column.
_top_n_filtered(table, maskcol, col, n) ==
    LET sub == SelectSeq(table, LAMBDA r : r[maskcol])
    IN  IF sub = <<>> THEN {<<>>} ELSE _top_n(sub, col, n)

\* Mutant of requests_per_minute: the latest minute comes first.
requests_per_minute_latest_first(table) ==
    LET minutes == SortIndex({table[i].minute : i \in 1..Len(table)})
        n == Len(minutes)
    IN  [k \in 1..n |->
            [minute |-> _iso(minutes[n + 1 - k]),
             requests |-> Cardinality({i \in 1..Len(table) :
                                          table[i].minute = minutes[n + 1 - k]})]]

\* requests_per_minute(df).
requests_per_minute(table) ==
    LET minutes == SortIndex({table[i].minute : i \in 1..Len(table)})
    IN  [k \in 1..Len(minutes) |->
            [minute |-> _iso(minutes[k]),
             requests |-> Cardinality({i \in 1..Len(table) : table[i].minute = minutes[k]})]]

\* Mutant of errors_per_minute: total counts the error rows only.
errors_per_minute_errors_only(table) ==
    LET minutes == SortIndex({table[i].minute : i \in 1..Len(table)})
        InMinute(m) == SelectSeq(table, LAMBDA r : r.minute = m)
    IN  [k \in 1..Len(minutes) |->
            ("minute" :> _iso(minutes[k])) @@
            ("total" :> CountTrue(InMinute(minutes[k]), "is_4xx")
                        + CountTrue(InMinute(minutes[k]), "is_5xx")) @@
            ("4xx" :> CountTrue(InMinute(minutes[k]), "is_4xx")) @@
            ("5xx" :> CountTrue(InMinute(minutes[k]), "is_5xx"))]

\* errors_per_minute(df).
errors_per_minute(table) ==
    LET minutes == SortIndex({table[i].minute : i \in 1..Len(table)})
        InMinute(m) == SelectSeq(table, LAMBDA r : r.minute = m)
    IN  [k \in 1..Len(minutes) |->
            ("minute" :> _iso(minutes[k])) @@
            ("total" :> Len(InMinute(minutes[k]))) @@
            ("4xx" :> CountTrue(InMinute(minutes[k]), "is_4xx")) @@
            ("5xx" :> CountTrue(InMinute(minutes[k]), "is_5xx"))]

\* overall_error_stats(df).
overall_error_stats(table) ==
    LET total == Len(table)
        c4 == CountTrue(table, "is_4xx")
        c5 == CountTrue(table, "is_5xx")
    IN  ("total_requests" :> total) @@
        ("4xx_count" :> c4) @@
        ("5xx_count" :> c5) @@
        ("4xx_rate" :> round6(_safe_div(c4, total))) @@
        ("5xx_rate" :> round6(_safe_div(c5, total)))

top_paths_by_volume(table, n) == _top_n(table, "path", n)

top_5xx_paths(table, n) == _top_n_filtered(table, "is_5xx", "path", n)

top_ips_by_requests(table, n) == _top_n(table, "ip", n)

\* Mutant of EligibleRows: an address needs more than min_requests rows.
EligibleRows_strict(table, flag, min_requests) ==
    LET totals == [a \in {table[i].ip : i \in 1..Len(table)} |->
                      Cardinality({i \in 1..Len(table) : table[i].ip = a})]
    IN  SelectSeq(table, LAMBDA r : totals[r.ip] > min_requests /\ r[flag])

\* The rows of the addresses with at least min_requests rows that have the flag.
EligibleRows(table, flag, min_requests) ==
    LET totals == [a \in {table[i].ip : i \in 1..Len(table)} |->
                      Cardinality({i \in 1..Len(table) : table[i].ip = a})]
    IN  SelectSeq(table, LAMBDA r : totals[r.ip] >= min_requests /\ r[flag])

top_ips_by_5xx(table, n, min_requests) ==
    LET sub == EligibleRows(table, "is_5xx", min_requests)
    IN  IF sub = <<>> THEN {<<>>} ELSE _top_n(sub, "ip", n)

top_ips_by_4xx(table, n, min_requests) ==
    LET sub == EligibleRows(table, "is_4xx", min_requests)
    IN  IF sub = <<>> THEN {<<>>} ELSE _top_n(sub, "ip", n)

\* The width of the incident window, 5 minutes, in seconds.
Window5m == 300

\* Mutant of window_5m: the timestamp is floored to the minute.
window_1m(r) == dt_floor(r.timestamp, 60)

\* df2["window_5m"] = df2["timestamp"].dt.floor("5min")
window_5m(r) == dt_floor(r.timestamp, Window5m)

\* Mutant of g5_orders: the windows are ranked by their number of requests.
g5_orders_by_requests(table) ==
    LET windows == {window_5m(table[i]) : i \in 1..Len(table)}
        size == [w \in windows |->
                    Cardinality({i \in 1..Len(table) : window_5m(table[i]) = w})]
    IN  OrdersDescending(windows, size)

\* g5 = df2.groupby("window_5m")["is_5xx"].sum().sort_values(ascending=False):
\* the window starts, by 5xx count descending, in the orders the sort may return.
g5_orders(table) ==
    LET windows == {window_5m(table[i]) : i \in 1..Len(table)}
        sum5 == [w \in windows |->
                    Cardinality({i \in 1..Len(table) :
                                    window_5m(table[i]) = w /\ table[i].is_5xx})]
    IN  OrdersDescending(windows, sum5)

\* The dict peak_5xx_window_5m builds once peak_start = g5.index[0] is chosen.
PeakWindow(table, peak_start, top_k_paths) ==
    LET window_df == SelectSeq(table, LAMBDA r : window_5m(r) = peak_start)
        total == Len(window_df)
        c4 == CountTrue(window_df, "is_4xx")
        c5 == CountTrue(window_df, "is_5xx")
        failing == SelectSeq(window_df, LAMBDA r : r.is_5xx)
        tops == IF failing = <<>> THEN {<<>>}
                ELSE {head(vc, top_k_paths) :
                        vc \in value_counts([i \in 1..Len(failing) |-> failing[i].path])}
    IN  {("window_start" :> _iso(peak_start)) @@
         ("window_end" :> _iso(peak_start + Window5m)) @@
         ("total_requests" :> total) @@
         ("4xx_count" :> c4) @@
         ("5xx_count" :> c5) @@
         ("5xx_rate" :> round6(_safe_div(c5, total))) @@
         ("top_5xx_paths" :> tp) : tp \in tops}

\* Mutant of peak_5xx_window_5m: the early return for a table without 5xx is missing.
peak_5xx_window_5m_unguarded(table, top_k_paths) ==
    UNION {PeakWindow(table, g5[1], top_k_paths) : g5 \in g5_orders(table)}

\* peak_5xx_window_5m(df, top_k_paths): the results it may return, None alone
\* when the table has no 5xx row.
peak_5xx_window_5m(table, top_k_paths) ==
    IF CountTrue(table, "is_5xx") = 0 THEN {None}
    ELSE UNION {PeakWindow(table, g5[1], top_k_paths) : g5 \in g5_orders(table)}

\* The minimum and the maximum of the timestamp column.
MinTimestamp(table) ==
    CHOOSE t \in {table[i].timestamp : i \in 1..Len(table)} :
        \A i \in 1..Len(table) : t <= table[i].timestamp
MaxTimestamp(table) ==
    CHOOSE t \in {table[i].timestamp : i \in 1..Len(table)} :
        \A i \in 1..Len(table) : t >= table[i].timestamp

\* The metrics dict of compute_metrics for a non-empty table: the set of the
\* summaries it may return.
compute_metrics(table) ==
    {[meta |->
        [start_time |-> _iso(MinTimestamp(table)),
         end_time |-> _iso(MaxTimestamp(table)),
         total_requests |-> Len(table),
         unique_ips |-> Cardinality({table[i].ip : i \in 1..Len(table)}),
         unique_paths |-> Cardinality({table[i].path : i \in 1..Len(table)})],
      traffic |->
        [requests_per_minute |-> requests_per_minute(table),
         top_paths_by_volume |-> tpv],
      errors |->
        [overall |-> overall_error_stats(table),
         errors_per_minute |-> errors_per_minute(table),
         top_5xx_paths |-> t5p,
         peak_5xx_window_5m |-> peak],
      clients |->
        [top_ips_by_requests |-> tir,
         top_ips_by_5xx |-> ti5,
         top_ips_by_4xx |-> ti4]] :
        tpv \in top_paths_by_volume(table, 10),
        t5p \in top_5xx_paths(table, 10),
        peak \in peak_5xx_window_5m(table, 5),
        tir \in top_ips_by_requests(table, 10),
        ti5 \in top_ips_by_5xx(table, 10, 20),
        ti4 \in top_ips_by_4xx(table, 10, 20)}

\* Mutant of copy: the same object under another name; what is assigned to it
\* is assigned to the caller's DataFrame.
copy_alias(frame) == [data |-> frame, own |-> FALSE]

\* df.copy(): a DataFrame of its own with the data of df; what is assigned to
\* its columns afterwards does not reach df.
copy(frame) == [data |-> frame, own |-> TRUE]

\* The caller's table after peak_5xx_window_5m(df): the function returns before
\* it copies when there is no 5xx row, and else assigns the column window_5m to
\* df2 (lines 159 to 163).
input_after_peak_5xx_window_5m(table) ==
    IF CountTrue(table, "is_5xx") = 0 THEN table
    ELSE LET df2 == copy(table) IN
         IF df2.own THEN table
         ELSE [i \in 1..Len(table) |->
                  [window_5m |-> window_5m(table[i])] @@ table[i]]

\* The caller's table after compute_metrics(df): the call raises on an empty
\* table before it reads a column, and of the functions it calls only
\* peak_5xx_window_5m assigns to a DataFrame.
input_after_compute_metrics(table) ==
    IF table = <<>> THEN table ELSE input_after_peak_5xx_window_5m(table)

\* The caller hands compute_metrics a normalized table: one more event of it, in
\* timestamp order and not a duplicate of an earlier row, with its derived columns.
AddEvent(e) ==
    /\ mpc = "input"
    /\ Len(df) < MaxRows
    /\ IF df = <<>> THEN TRUE ELSE df[Len(df)].timestamp <= e.timestamp
    /\ \A i \in 1..Len(df) : Base(df[i]) # e
    /\ df' = Append(df, Derive(e))
    /\ UNCHANGED <<mpc, metrics>>
    /\ UNCHANGED <<parseVars, normVars, call, scriptVars>>

\* The call compute_metrics(df).
ComputeMetrics ==
    /\ mpc = "input"
    /\ IF df = <<>>
       THEN mpc' = "raised" /\ UNCHANGED metrics
       ELSE mpc' = "returned" /\ metrics' \in compute_metrics(df)
    /\ df' = input_after_compute_metrics(df)
    /\ UNCHANGED <<parseVars, normVars, call, scriptVars>>

\* overall_error_stats(df) called alone, in place of compute_metrics, on the
\* table built so far (the empty one included).
Call_overall_error_stats ==
    /\ mpc = "input"
    /\ call = None
    /\ call' = [fn |-> "overall_error_stats", result |-> overall_error_stats(df)]
    /\ mpc' = "idle"
    /\ UNCHANGED <<df, metrics>>
    /\ UNCHANGED <<parseVars, normVars, scriptVars>>

InitMetrics ==
    /\ df = <<>>
    /\ mpc = "input"
    /\ metrics = None
    /\ f = <<>>
    /\ max_bad_lines = 0
    /\ rows = <<>>
    /\ bad_lines = 0
    /\ ppc = "reading"
    /\ parsed = <<>>
    /\ NormIdle

NextMetrics ==
    \/ \E e \in Events : AddEvent(e)
    \/ ComputeMetrics
    \/ Call_overall_error_stats

SpecMetrics == InitMetrics /\ [][NextMetrics]_vars

----------------------------------------------------------------------------
(* metrics.py: top_ips_by_5xx and top_ips_by_4xx called alone, with a      *)
(* min_requests that the model's tables can reach.                         *)

\* The events of the tables they are called on: two addresses, each with a
\* success, a client error and a server error at 01:00:00 and at 01:01:00.
RankEvents ==
    {[timestamp |-> t, ip |-> a, method |-> "GET", path |-> "/home",
      status |-> st, bytes_sent |-> 512] :
        t \in {3600, 3660}, a \in {"1.1.1.1", "2.2.2.2"}, st \in {200, 404, 500}}

\* top_ips_by_5xx(df, n=10, min_requests=min_requests) called alone.
Call_top_ips_by_5xx(min_requests) ==
    /\ mpc = "input"
    /\ call = None
    /\ \E result \in top_ips_by_5xx(df, 10, min_requests) :
         call' = [fn |-> "top_ips_by_5xx", flag |-> "is_5xx",
                  min_requests |-> min_requests, result |-> result]
    /\ mpc' = "idle"
    /\ UNCHANGED <<df, metrics>>
    /\ UNCHANGED <<parseVars, normVars, scriptVars>>

\* top_ips_by_4xx(df, n=10, min_requests=min_requests) called alone.
Call_top_ips_by_4xx(min_requests) ==
    /\ mpc = "input"
    /\ call = None
    /\ \E result \in top_ips_by_4xx(df, 10, min_requests) :
         call' = [fn |-> "top_ips_by_4xx", flag |-> "is_4xx",
                  min_requests |-> min_requests, result |-> result]
    /\ mpc' = "idle"
    /\ UNCHANGED <<df, metrics>>
    /\ UNCHANGED <<parseVars, normVars, scriptVars>>

NextRank ==
    \/ \E e \in RankEvents : AddEvent(e)
    \/ \E min_requests \in 1..MaxMinRequests : Call_top_ips_by_5xx(min_requests)
    \/ \E min_requests \in 1..MaxMinRequests : Call_top_ips_by_4xx(min_requests)

SpecRank == InitMetrics /\ [][NextRank]_vars

----------------------------------------------------------------------------
(* normalize.py: normalize_events.  A cell of the input DataFrame is a     *)
(* value under the name of its Python type: a datetime, an int, a str or   *)
(* None.  A str of the ip, method and path columns is one token; a str     *)
(* that to_numeric reads is a sequence of characters.                      *)

DateTime(seconds) == [datetime |-> seconds]
IntCell(n) == [int |-> n]
StrCell(s) == [str |-> s]
Chars(cs) == [chars |-> cs]
NaT == [NaT |-> TRUE]
NaN == [NaN |-> TRUE]
TypeOf(cell) == CHOOSE type \in DOMAIN cell : TRUE

REQUIRED_COLUMNS == <<"timestamp", "ip", "method", "path", "status", "bytes_sent">>

\* Mutant of _ensure_columns: no column is ever found missing.
_ensure_columns_blind(cols, required) == <<>>

\* _ensure_columns: the list of missing columns; the function raises when it is
\* not empty.
_ensure_columns(cols, required) == SelectSeq(required, LAMBDA c : c \notin cols)

\* pd.to_datetime(errors="coerce") on one cell: a datetime stays, text that is
\* no date and None become NaT.
to_datetime(cell) == IF TypeOf(cell) = "datetime" THEN cell ELSE NaT

\* pd.to_numeric(errors="coerce") on one cell: an int stays, a str of decimal
\* digits is read, anything else becomes NaN.
to_numeric(cell) ==
    IF TypeOf(cell) = "int" THEN cell
    ELSE IF TypeOf(cell) = "chars" /\ isdecimal(cell.chars) THEN IntCell(int(cell.chars))
    ELSE NaN

isna(cell) == TypeOf(cell) \in {"NaT", "NaN", "none"}

\* Mutant of fillna: the gap is filled with 1 whatever value is given.
fillna_one(cell, value) == IF isna(cell) THEN IntCell(1) ELSE cell

\* Series.fillna(value) on one cell.
fillna(cell, value) == IF isna(cell) THEN IntCell(value) ELSE cell

\* astype(str) on one cell of a text column: str(None) is "None".
astype_str(cell) == IF cell = None THEN "None" ELSE cell.str

\* str.strip on the tokens of the model: the ones with white space at an end.
strip(s) ==
    CASE s = " /home" -> "/home"
      [] s = "GET "   -> "GET"
      [] s = "  "     -> ""
      [] OTHER        -> s

\* The numbers between the dots of an address token (none for other text).
Octets(ip) ==
    CASE ip = "1.1.1.1"     -> <<1, 1, 1, 1>>
      [] ip = "2.2.2.2"     -> <<2, 2, 2, 2>>
      [] ip = "10.0.0.1"    -> <<10, 0, 0, 1>>
      [] ip = "100.0.0.1"   -> <<100, 0, 0, 1>>
      [] ip = "192.168.1.1" -> <<192, 168, 1, 1>>
      [] ip = "192.169.1.1" -> <<192, 169, 1, 1>>
      [] ip = "172.15.0.1"  -> <<172, 15, 0, 1>>
      [] ip = "172.16.0.1"  -> <<172, 16, 0, 1>>
      [] ip = "172.31.0.1"  -> <<172, 31, 0, 1>>
      [] ip = "172.32.0.1"  -> <<172, 32, 0, 1>>
      [] OTHER              -> <<>>

\* Mutant of private: only the addresses in 10.0.0.0/8 are private.
private_10_only(ip) == LET o == Octets(ip) IN Len(o) = 4 /\ o[1] = 10

\* ip.str.startswith("10.") | ip.str.startswith("192.168.") |
\* ip.str.match(r"^172\.(1[6-9]|2\d|3[0-1])\.")
private(ip) ==
    LET o == Octets(ip) IN
    /\ Len(o) = 4
    /\ \/ o[1] = 10
       \/ o[1] = 192 /\ o[2] = 168
       \/ o[1] = 172 /\ o[2] \in 16..31

\* Lines 67 to 78: the coercion of the columns of one row.
Coerce(raw) ==
    [timestamp  |-> to_datetime(raw.timestamp),
     ip         |-> strip(astype_str(raw.ip)),
     method     |-> strip(astype_str(raw.method)),
     path       |-> strip(astype_str(raw.path)),
     status     |-> to_numeric(raw.status),
     bytes_sent |-> fillna(to_numeric(raw.bytes_sent), 0)]

mask_bad_time(r) == isna(r.timestamp)
mask_bad_status(r) == isna(r.status)
mask_bad_req(r) == r.method = "" \/ r.path = "" \/ r.path = "None"

\* Lines 100 and 101 (and the datetime column read as seconds): the row once its
\* cells are of one type each.
astype_int(r) ==
    [timestamp |-> r.timestamp.datetime, ip |-> r.ip, method |-> r.method,
     path |-> r.path, status |-> r.status.int, bytes_sent |-> r.bytes_sent.int]

\* Mutant of Tally: the count is not recorded.
Tally_lost(dropped, reason, count) == dropped

\* if mask.any(): dropped[reason] = int(mask.sum())
Tally(dropped, reason, count) ==
    IF count > 0 THEN (reason :> count) @@ dropped ELSE dropped

\* Mutant of drop_duplicates: nothing is dropped.
drop_duplicates_none(rs) == rs

\* DataFrame.drop_duplicates(subset=the six base fields): the first row of every
\* group of equal rows, in the order of the table.
drop_duplicates(rs) ==
    LET keep == {i \in 1..Len(rs) : \A j \in 1..(i - 1) : rs[j] # rs[i]}
        order == SortIndex(keep)
    IN  [k \in 1..Len(order) |-> rs[order[k]]]

\* Mutant of sort_values: the rows are left in the order they were in.
sort_values_missing(rs) == {[k \in 1..Len(rs) |-> k]}

\* out.sort_values("timestamp") with the default quicksort: the orders of the
\* row positions the sort may return.
sort_values(rs) ==
    OrdersAscending(1..Len(rs), [i \in 1..Len(rs) |-> rs[i].timestamp])

\* Mutant of normalize_events: every mask is counted on the whole input, so a row
\* with several defects is counted under each of them.
normalize_events_every_reason(input, drop_private) ==
    LET out0 == [i \in 1..Len(input) |-> Coerce(input[i])]
        out1 == SelectSeq(out0, LAMBDA r : ~mask_bad_time(r))
        dropped1 == Tally(<<>>, "bad_timestamp", Len(out0) - Len(out1))
        out2 == SelectSeq(out1, LAMBDA r : ~mask_bad_status(r))
        dropped2 == Tally(dropped1, "bad_status", Len(SelectSeq(out0, LAMBDA r : mask_bad_status(r))))
        out3 == SelectSeq(out2, LAMBDA r : ~mask_bad_req(r))
        dropped3 == Tally(dropped2, "bad_request", Len(SelectSeq(out0, LAMBDA r : mask_bad_req(r))))
        out4 == [i \in 1..Len(out3) |-> astype_int(out3[i])]
        out5 == IF drop_private
                THEN SelectSeq(out4, LAMBDA r : ~private(r.ip))
                ELSE out4
        dropped5 == Tally(dropped3, "private_ip",
                          IF drop_private
                          THEN Len(SelectSeq(out0, LAMBDA r : private(r.ip)))
                          ELSE 0)
        out6 == drop_duplicates(out5)
        dropped6 == Tally(dropped5, "duplicates", Len(out5) - Len(out6))
        out7 == [i \in 1..Len(out6) |-> Derive(out6[i])]
    IN  { [rows |-> [k \in 1..Len(out7) |-> out7[order[k]]],
           report |-> [input_rows |-> Len(input),
                       output_rows |-> Len(out7),
                       dropped_rows |-> Len(input) - Len(out7),
                       dropped_reasons |-> dropped6]] :
          order \in sort_values(out7) }

\* The body of normalize_events after _ensure_columns: the (rows, report) pairs
\* the call may return for the rows of df.
normalize_events(input, drop_private) ==
    LET out0 == [i \in 1..Len(input) |-> Coerce(input[i])]
        out1 == SelectSeq(out0, LAMBDA r : ~mask_bad_time(r))
        dropped1 == Tally(<<>>, "bad_timestamp", Len(out0) - Len(out1))
        out2 == SelectSeq(out1, LAMBDA r : ~mask_bad_status(r))
        dropped2 == Tally(dropped1, "bad_status", Len(out1) - Len(out2))
        out3 == SelectSeq(out2, LAMBDA r : ~mask_bad_req(r))
        dropped3 == Tally(dropped2, "bad_request", Len(out2) - Len(out3))
        out4 == [i \in 1..Len(out3) |-> astype_int(out3[i])]
        out5 == IF drop_private
                THEN SelectSeq(out4, LAMBDA r : ~private(r.ip))
                ELSE out4
        dropped5 == Tally(dropped3, "private_ip", Len(out4) - Len(out5))
        out6 == drop_duplicates(out5)
        dropped6 == Tally(dropped5, "duplicates", Len(out5) - Len(out6))
        out7 == [i \in 1..Len(out6) |-> Derive(out6[i])]
    IN  { [rows |-> [k \in 1..Len(out7) |-> out7[order[k]]],
           report |-> [input_rows |-> Len(input),
                       output_rows |-> Len(out7),
                       dropped_rows |-> Len(input) - Len(out7),
                       dropped_reasons |-> dropped6]] :
          order \in sort_values(out7) }

\* A row of the input DataFrame.
Raw(timestamp, ip, method, path, status, bytes_sent) ==
    [timestamp |-> timestamp, ip |-> ip, method |-> method, path |-> path,
     status |-> status, bytes_sent |-> bytes_sent]

\* A normalized (or parsed) row as a row of an input DataFrame.
AsInput(r) ==
    Raw(DateTime(r.timestamp), StrCell(r.ip), StrCell(r.method), StrCell(r.path),
        IntCell(r.status), IntCell(r.bytes_sent))

\* The rows the model's input DataFrames are made of: three clean rows (two at
\* the same second, one earlier), a row that equals a clean one once stripped,
\* and rows with an unreadable timestamp, an unreadable timestamp and status, an
\* unreadable status, a status given as text (at 01:00:59), no path, a blank
\* method, a private address and unreadable bytes.
RawRows ==
    { Raw(DateTime(3900), StrCell("1.1.1.1"), StrCell("GET"), StrCell("/home"),
          IntCell(200), IntCell(512)),
      Raw(DateTime(3900), StrCell("2.2.2.2"), StrCell("GET"), StrCell("/api/login"),
          IntCell(500), IntCell(512)),
      Raw(DateTime(3600), StrCell("1.1.1.1"), StrCell("GET"), StrCell("/home"),
          IntCell(404), IntCell(512)),
      Raw(DateTime(3900), StrCell("1.1.1.1"), StrCell("GET "), StrCell(" /home"),
          IntCell(200), IntCell(512)),
      Raw(Chars(<<"y", "e", "s">>), StrCell("1.1.1.1"), StrCell("GET"), StrCell("/home"),
          IntCell(200), IntCell(512)),
      Raw(None, StrCell("10.0.0.1"), StrCell("GET"), None,
          Chars(<<"a", "b", "c">>), IntCell(512)),
      Raw(DateTime(3600), StrCell("1.1.1.1"), StrCell("GET"), StrCell("/home"),
          Chars(<<"a", "b", "c">>), IntCell(512)),
      Raw(DateTime(3659), StrCell("2.2.2.2"), StrCell("GET"), StrCell("/home"),
          Chars(<<"5", "0", "0">>), IntCell(512)),
      Raw(DateTime(3600), StrCell("1.1.1.1"), StrCell("GET"), None,
          IntCell(200), IntCell(512)),
      Raw(DateTime(3600), StrCell("1.1.1.1"), StrCell("  "), StrCell("/home"),
          IntCell(200), IntCell(512)),
      Raw(DateTime(3600), StrCell("10.0.0.1"), StrCell("GET"), StrCell("/home"),
          IntCell(500), IntCell(512)),
      Raw(DateTime(3600), StrCell("1.1.1.1"), StrCell("GET"), StrCell("/home"),
          IntCell(200), Chars(<<"-">>)) }

\* The columns an input DataFrame may have: all six, or all but one.
AllColumns == Range(REQUIRED_COLUMNS)
ColumnSets == {AllColumns} \cup {AllColumns \ {c} : c \in AllColumns}

\* A row is added to the DataFrame that will be handed to normalize_events.
AddRaw(raw) ==
    /\ npc = "input"
    /\ Len(batch) < MaxBatch
    /\ batch' = Append(batch, raw)
    /\ UNCHANGED <<columns, drop_private_ips, npc, report, again, call>>
    /\ UNCHANGED <<parseVars, metricsVars, scriptVars>>

\* Mutant of Call_normalize_events: a result with no row raises.
Call_normalize_events_nonempty(cols, input, drop) ==
    /\ columns' = cols
    /\ drop_private_ips' = drop
    /\ IF \/ _ensure_columns(cols, REQUIRED_COLUMNS) # <<>>
          \/ \A result \in normalize_events(input, drop) : result.rows = <<>>
       THEN npc' = "raised" /\ UNCHANGED <<df, report, mpc>>
       ELSE /\ npc' = "returned"
            /\ mpc' = "input"
            /\ \E result \in normalize_events(input, drop) :
                 df' = result.rows /\ report' = result.report
    /\ UNCHANGED <<metrics, again, call>>
    /\ UNCHANGED <<parseVars, scriptVars>>

\* The call normalize_events(df, drop_private_ips=drop) on a DataFrame with the
\* columns cols and the rows input: it raises on a missing column, and else
\* returns the rows (handed on to compute_metrics) and the report.
Call_normalize_events(cols, input, drop) ==
    /\ columns' = cols
    /\ drop_private_ips' = drop
    /\ IF _ensure_columns(cols, REQUIRED_COLUMNS) # <<>>
       THEN npc' = "raised" /\ UNCHANGED <<df, report, mpc>>
       ELSE /\ npc' = "returned"
            /\ mpc' = "input"
            /\ \E result \in normalize_events(input, drop) :
                 df' = result.rows /\ report' = result.report
    /\ UNCHANGED <<metrics, again, call>>
    /\ UNCHANGED <<parseVars, scriptVars>>

\* The caller's DataFrame after normalize_events(df): the call raises on a
\* missing column before it copies, and else assigns the coerced columns to out
\* (lines 58 to 78); from the first filter on out is another DataFrame.
input_after_normalize_events(cols, input) ==
    IF _ensure_columns(cols, REQUIRED_COLUMNS) # <<>> THEN input
    ELSE LET out == copy(input) IN
         IF out.own THEN input
         ELSE [i \in 1..Len(input) |->
                  [Coerce(input[i]) EXCEPT !.ip = StrCell(@), !.method = StrCell(@),
                                           !.path = StrCell(@)]]

\* normalize_events called on the DataFrame built so far.
Normalize(cols, drop) ==
    /\ npc = "input"
    /\ Call_normalize_events(cols, batch, drop)
    /\ batch' = input_after_normalize_events(cols, batch)

\* normalize_events called on the DataFrame it returned, with the same setting.
NormalizeAgain ==
    /\ npc = "returned"
    /\ again = None
    /\ again' \in normalize_events([i \in 1..Len(df) |-> AsInput(df[i])],
                                   drop_private_ips)
    /\ UNCHANGED <<batch, columns, drop_private_ips, npc, report, call>>
    /\ UNCHANGED <<parseVars, metricsVars, scriptVars>>

InitNormalize ==
    /\ ScriptsIdle
    /\ batch = <<>>
    /\ columns = AllColumns
    /\ drop_private_ips = FALSE
    /\ npc = "input"
    /\ report = None
    /\ again = None
    /\ call = None
    /\ df = <<>>
    /\ mpc = "idle"
    /\ metrics = None
    /\ f = <<>>
    /\ max_bad_lines = 0
    /\ rows = <<>>
    /\ bad_lines = 0
    /\ ppc = "reading"
    /\ parsed = <<>>

NextNormalize ==
    \/ \E raw \in RawRows : AddRaw(raw)
    \/ \E cols \in ColumnSets, drop \in BOOLEAN : Normalize(cols, drop)
    \/ NormalizeAgain

SpecNormalize == InitNormalize /\ [][NextNormalize]_vars

\* normalize_events on DataFrames whose rows differ in the address only: clean
\* rows at 01:00:00 from addresses inside and just outside the three private
\* ranges.
Addresses ==
    {"1.1.1.1", "10.0.0.1", "100.0.0.1", "192.168.1.1", "192.169.1.1",
     "172.15.0.1", "172.16.0.1", "172.31.0.1", "172.32.0.1"}
AddressRows ==
    {Raw(DateTime(3600), StrCell(a), StrCell("GET"), StrCell("/home"),
         IntCell(200), IntCell(512)) : a \in Addresses}

NextAddresses ==
    \/ \E raw \in AddressRows : AddRaw(raw)
    \/ \E drop \in BOOLEAN : Normalize(AllColumns, drop)

SpecAddresses == InitNormalize /\ [][NextAddresses]_vars

----------------------------------------------------------------------------
(* The three stages in sequence, as scripts/validate_metrics.py runs them: *)
(*     df_raw = parse_nginx_log(LOG_PATH)                                  *)
(*     df, rep = normalize_events(df_raw, assume_tz="UTC")                 *)
(*     metrics = compute_metrics(df)                                       *)

GetNone == <<"GET", "None", "HTTP/1.1">>

\* The lines the files of the pipeline are made of: a blank line, a line that is
\* no log line, two requests, a request for the path None and a request line
\* of one token.
PipelineLines ==
    { Line("blank", "", T0100, <<>>, <<>>, <<>>),
      Line("other", "", T0100, <<>>, <<>>, <<>>),
      Line("combined", "1.1.1.1", T0105, GetLogin, <<"2","0","0">>, <<"5","1","2">>),
      Line("combined", "1.1.1.1", T0100, GetHome,  <<"5","0","0">>, <<"-">>),
      Line("combined", "2.2.2.2", T0100, GetNone,  <<"2","0","0">>, <<"7">>),
      Line("combined", "1.1.1.1", T0100, <<"GET">>, <<"2","0","0">>, <<"7">>) }

\* normalize_events(df_raw) on the DataFrame parse_nginx_log returned.
NormalizeParsed ==
    /\ ppc = "returned"
    /\ npc = "idle"
    /\ LET df_raw == [i \in 1..Len(parsed) |-> AsInput(parsed[i])] IN
         /\ Call_normalize_events(AllColumns, df_raw, FALSE)
         /\ batch' = input_after_normalize_events(AllColumns, df_raw)

InitPipeline ==
    /\ f = <<>>
    /\ max_bad_lines \in 0..MaxThreshold
    /\ rows = <<>>
    /\ bad_lines = 0
    /\ ppc = "reading"
    /\ parsed = <<>>
    /\ df = <<>>
    /\ mpc = "idle"
    /\ metrics = None
    /\ NormIdle

NextPipeline ==
    \/ \E line \in PipelineLines : ReadLine(line)
    \/ EndOfFile
    \/ NormalizeParsed
    \/ ComputeMetrics

SpecPipeline == InitPipeline /\ [][NextPipeline]_vars

----------------------------------------------------------------------------
(* Claims about compute_metrics, checked under SpecMetrics *)

\* compute_metrics has returned a summary for the table df.
Returned == mpc = "returned"

\* errors.peak_5xx_window_5m of the summary.
Peak == metrics.errors.peak_5xx_window_5m

\* The seconds of a reported clock reading.
ClockSeconds(c) == c.H * 3600 + c.M * 60 + c.S

\* The rows of df with lo <= timestamp < hi, and those among them whose status is
\* in smin..smax.
RowsIn(lo, hi) == {i \in 1..Len(df) : lo <= df[i].timestamp /\ df[i].timestamp < hi}
StatusIn(lo, hi, smin, smax) ==
    {i \in RowsIn(lo, hi) : smin <= df[i].status /\ df[i].status <= smax}

\* The starts of the clock-aligned 5-minute windows of the model's day.
AlignedStarts == {300 * k : k \in 0..15}

\* The largest number of 5xx events in one clock-aligned window.
Max5xxCount ==
    CHOOSE n \in 0..Len(df) :
        /\ \E w \in AlignedStarts : Cardinality(StatusIn(w, w + 300, 500, 599)) = n
        /\ \A w \in AlignedStarts : Cardinality(StatusIn(w, w + 300, 500, 599)) <= n

\* C1: for a table with at least one 5xx event, the peak is present, its
\* window_start is a clock-aligned 5-minute boundary, its 5xx_count is the number
\* of 5xx events of that window, and no clock-aligned window has more 5xx events:
\* the window is chosen by 5xx count, not by rate or by volume.
C1_PeakHasMax5xxCount ==
    (Returned /\ \E i \in 1..Len(df) : df[i].status \in 500..599) =>
        /\ Peak # None
        /\ LET ws == ClockSeconds(Peak["window_start"]) IN
             /\ ws \in AlignedStarts
             /\ Peak["5xx_count"] = Cardinality(StatusIn(ws, ws + 300, 500, 599))
             /\ Peak["5xx_count"] = Max5xxCount

\* C1 witness: the selected window has 2 server errors in 2 requests while another
\* window has 1 server error in 3 requests (more volume, fewer errors).
C1_Witness ==
    /\ Returned
    /\ Peak # None
    /\ Peak["5xx_count"] = 2 /\ Peak["total_requests"] = 2
    /\ \E w \in AlignedStarts :
         /\ Cardinality(RowsIn(w, w + 300)) = 3
         /\ Cardinality(StatusIn(w, w + 300, 500, 599)) = 1

\* C2 (as claimed): among the windows tied for the maximum 5xx count the peak is
\* the one with the earliest window_start.
C2_TieGoesToEarliestWindow ==
    (Returned /\ Peak # None) =>
        \A w \in AlignedStarts :
            Cardinality(StatusIn(w, w + 300, 500, 599)) = Max5xxCount
                => ClockSeconds(Peak["window_start"]) <= w

\* C3: the peak is absent exactly when errors.overall.5xx_count is zero, and that
\* count is the number of events of the table with a 5xx status.
C3_PeakAbsentIffNo5xx ==
    Returned =>
        /\ (Peak = None) <=> (metrics.errors.overall["5xx_count"] = 0)
        /\ metrics.errors.overall["5xx_count"] =
               Cardinality({i \in 1..Len(df) : df[i].status \in 500..599})

\* C3 witness: a summary without a peak for a table that has client errors.
C3_Witness ==
    /\ Returned
    /\ Peak = None
    /\ Len(df) >= 2
    /\ \E i \in 1..Len(df) : df[i].status = 404

\* rate (in millionths) is n / d rounded to 6 places: no millionth is nearer.
IsRounded6(rate, n, d) ==
    LET diff == rate * d - n * 1000000
    IN  2 * (IF diff < 0 THEN 0 - diff ELSE diff) <= d

\* C4: total_requests, 4xx_count and 5xx_count of the peak count the events with
\* window_start <= timestamp < window_end of any status, of status 400-499 and of
\* status 500-599; 5xx_rate is 5xx_count / total_requests rounded to 6 places; and
\* when every server error of the window is on one path, that path heads
\* top_5xx_paths with all of them.
C4_PeakCountsAndRate ==
    (Returned /\ Peak # None) =>
        LET ws == ClockSeconds(Peak["window_start"])
            we == ClockSeconds(Peak["window_end"])
        IN  /\ Peak["total_requests"] = Cardinality(RowsIn(ws, we))
            /\ Peak["4xx_count"] = Cardinality(StatusIn(ws, we, 400, 499))
            /\ Peak["5xx_count"] = Cardinality(StatusIn(ws, we, 500, 599))
            /\ Peak["total_requests"] > 0
            /\ IsRounded6(Peak["5xx_rate"], Peak["5xx_count"], Peak["total_requests"])
            /\ \A p \in {df[i].path : i \in 1..Len(df)} :
                 (\A i \in StatusIn(ws, we, 500, 599) : df[i].path = p) =>
                     /\ Len(Peak["top_5xx_paths"]) = 1
                     /\ Peak["top_5xx_paths"][1] =
                            [value |-> p, count |-> Peak["5xx_count"]]

\* C4 witness: 5 requests in one aligned window, 2 of them status 500, both on
\* /api/login, reported as total 5, 5xx_count 2, 5xx_rate 0.4.
C4_Witness ==
    /\ Returned
    /\ Peak # None
    /\ Len(df) = 5
    /\ Peak["total_requests"] = 5
    /\ Peak["5xx_count"] = 2
    /\ Peak["4xx_count"] = 1
    /\ Peak["5xx_rate"] = 400000
    /\ Peak["top_5xx_paths"][1].value = "/api/login"

\* C5: a peak that is present starts on a multiple of 5 minutes of the clock, ends
\* exactly 5 minutes later, and holds at least one 5xx event of the table.
C5_PeakWindowBounds ==
    (Returned /\ Peak # None) =>
        LET ws == ClockSeconds(Peak["window_start"])
            we == ClockSeconds(Peak["window_end"])
        IN  /\ Peak["window_start"].S = 0
            /\ Peak["window_start"].M % 5 = 0
            /\ we = ws + 300
            /\ StatusIn(ws, we, 500, 599) # {}
            /\ Peak["5xx_count"] >= 1
            /\ Peak["total_requests"] >= 1

\* C5 witness: the only server error is at 01:04:59 and the peak is reported as
\* 01:00:00 to 01:05:00.
C5_Witness ==
    /\ Returned
    /\ Peak # None
    /\ \A i \in 1..Len(df) : df[i].status = 500 => df[i].timestamp = 3899
    /\ Peak["window_start"] = [H |-> 1, M |-> 0, S |-> 0]
    /\ Peak["window_end"] = [H |-> 1, M |-> 5, S |-> 0]

----------------------------------------------------------------------------
(* Claims about parse_nginx_log, checked under SpecParse *)

\* The line read by the step just taken.
LastLine == f[Len(f)]

\* The non-blank lines read so far.
NonBlank == {i \in 1..Len(f) : f[i].form # "blank"}

\* A line that follows the grammar up to its bytes token: the combined format
\* with an address, a valid time_local, a request of at least two tokens and a
\* three-digit status.
WellFormedUpToBytes(line) ==
    /\ line.form = "combined"
    /\ line.ip # ""
    /\ line.time.H < 24 /\ line.time.M < 60 /\ line.time.S < 60
    /\ Len(line.request) >= 2
    /\ Len(line.status) = 3 /\ \A i \in 1..3 : line.status[i] \in Digits

\* A line the parser is documented to count as malformed whatever its bytes
\* token: it fails the grammar, its request has fewer than two tokens, or its
\* time does not parse.
MalformedBeforeBytes(line) == line.form # "blank" /\ ~WellFormedUpToBytes(line)

\* C6 (as claimed): a parse of a file with more than max_bad_lines malformed
\* lines never returns rows, and the parse fails for this reason only when the
\* malformed lines exceed max_bad_lines.
C6_AbortIffThresholdExceeded ==
    /\ ppc = "returned" =>
           Cardinality({i \in 1..Len(f) : MalformedBeforeBytes(f[i])}) <= max_bad_lines
    /\ ppc = "abort" => bad_lines > max_bad_lines

\* The step that read line leaves rows and bad_lines alone.
StepSkips == rows' = rows /\ bad_lines' = bad_lines
\* The step that read line counts it as malformed and leaves rows alone.
StepCounts == rows' = rows /\ bad_lines' = bad_lines + 1
\* The step that read line appends one row, taken from that line, after the rows
\* already accepted, and leaves the count alone.
StepAccepts(line) ==
    /\ bad_lines' = bad_lines
    /\ Len(rows') = Len(rows) + 1
    /\ SubSeq(rows', 1, Len(rows)) = rows
    /\ Len(line.request) >= 2
    /\ LET r == rows'[Len(rows')] IN
         /\ r.ip = line.ip
         /\ r.method = line.request[1]
         /\ r.path = line.request[2]
         /\ r.timestamp = line.time.H * 3600 + line.time.M * 60 + line.time.S

\* C7: every non-blank line read either appends exactly one row or adds one to
\* the malformed count, never both and never neither, a blank line does neither,
\* no step changes a row accepted earlier, and so accepted rows + malformed count
\* is the number of non-blank lines (of the returned frame as well).
C7_EveryLineAccountedOnce ==
    /\ [](/\ Len(rows) + bad_lines = Cardinality(NonBlank)
          /\ ppc = "returned" => Len(parsed) + bad_lines = Cardinality(NonBlank))
    /\ [][f' # f =>
            IF f'[Len(f')].form = "blank" THEN StepSkips
            ELSE (StepAccepts(f'[Len(f')]) /\ ~StepCounts)
                 \/ (StepCounts /\ ~StepAccepts(f'[Len(f')]))]_vars

\* C7 witness: a returned parse of a file with a blank line, a malformed line and
\* two accepted lines.
C7_Witness ==
    /\ ppc = "returned"
    /\ Len(f) = 4
    /\ \E i \in 1..Len(f) : f[i].form = "blank"
    /\ bad_lines = 1
    /\ Len(parsed) = 2

\* C8: a line that follows the grammar and whose bytes token is "-" is accepted
\* with bytes_sent 0, and the malformed count stays.
C8_DashBytesIsZero ==
    [][(f' # f /\ WellFormedUpToBytes(f'[Len(f')]) /\ f'[Len(f')].bytes = <<"-">>) =>
          /\ StepAccepts(f'[Len(f')])
          /\ rows'[Len(rows')].bytes_sent = 0]_vars

\* C8 witness: the line just read has the bytes token "-" and is the last row,
\* with bytes_sent 0 and status 500.
C8_Witness ==
    /\ f # <<>> /\ rows # <<>>
    /\ WellFormedUpToBytes(LastLine)
    /\ LastLine.bytes = <<"-">>
    /\ rows[Len(rows)].bytes_sent = 0
    /\ rows[Len(rows)].status = 500
    /\ bad_lines = 0

\* C9 (as claimed): a line that follows the grammar but whose bytes token is
\* neither all digits nor "-" yields no row and adds one to the malformed count.
C9_NonNumericBytesIsMalformed ==
    [][(/\ f' # f
        /\ WellFormedUpToBytes(f'[Len(f')])
        /\ Len(f'[Len(f')].bytes) > 0
        /\ f'[Len(f')].bytes # <<"-">>
        /\ \E i \in 1..Len(f'[Len(f')].bytes) : f'[Len(f')].bytes[i] \notin Digits)
          => StepCounts]_vars

\* The six base fields of the rows of the returned frame.
ParsedBase == [k \in 1..Len(parsed) |-> Base(parsed[k])]

\* C10 (as claimed): the returned rows are in the order of their lines.
C10_RowsInFileOrder == ppc = "returned" => ParsedBase = rows

\* The timestamps of s ascend strictly.
StrictlyAscending(s) ==
    \A i \in 1..Len(s) : \A j \in 1..Len(s) : i < j => s[i].timestamp < s[j].timestamp

\* C10 (amended): the returned rows are the accepted rows sorted by timestamp
\* ascending: the same rows, each as often, with non-decreasing timestamps; they
\* are in file order when the accepted timestamps ascend strictly in the file.
C10_RowsSortedByTimestamp ==
    ppc = "returned" =>
        /\ Len(parsed) = Len(rows)
        /\ \A r \in Range(rows) \cup Range(ParsedBase) :
               Cardinality({k \in 1..Len(parsed) : ParsedBase[k] = r}) =
               Cardinality({k \in 1..Len(rows) : rows[k] = r})
        /\ \A i \in 1..Len(parsed) : \A j \in 1..Len(parsed) :
               i < j => parsed[i].timestamp <= parsed[j].timestamp
        /\ StrictlyAscending(rows) => ParsedBase = rows

\* C10 witness: a file whose accepted lines are 01:05:00 then 01:00:00, returned
\* as 01:00:00 then 01:05:00.
C10_Witness ==
    /\ ppc = "returned"
    /\ Len(rows) = 2
    /\ rows[1].timestamp = 3900 /\ rows[2].timestamp = 3600
    /\ parsed[1].timestamp = 3600 /\ parsed[2].timestamp = 3900

----------------------------------------------------------------------------
(* Claims about the empty result (SpecPipeline) *)

\* C11: an empty result is fatal and never yields a summary.  parse_nginx_log
\* returns only when at least one line was accepted, and ends in its "no
\* parseable lines" error when none was (unless it aborted on the threshold
\* before); nothing runs after that error.  compute_metrics returns a summary
\* only for a non-empty table, and on an empty one it raises with no part of the
\* summary built.
C11_EmptyResultIsFatal ==
    /\ ppc = "returned" => rows # <<>> /\ parsed # <<>>
    /\ ppc = "empty" => rows = <<>> /\ npc = "idle" /\ mpc = "idle" /\ metrics = None
    /\ mpc = "returned" => df # <<>> /\ metrics # None
    /\ mpc = "raised" => df = <<>> /\ metrics = None

\* C11 witness: the lines the parser accepted are all dropped by normalize_events
\* (a request for the path None), and compute_metrics raised on the empty table.
C11_Witness ==
    /\ ppc = "returned"
    /\ parsed # <<>>
    /\ npc = "returned"
    /\ df = <<>>
    /\ mpc = "raised"
    /\ metrics = None

----------------------------------------------------------------------------
(* Claims about normalize_events (SpecNormalize) *)

\* The returned DataFrame; batch is the input DataFrame.
Normalized == npc = "returned"

RECURSIVE SumValues(_)
\* sum(d.values()) of a dict.
SumValues(d) ==
    IF DOMAIN d = {} THEN 0
    ELSE LET k == CHOOSE x \in DOMAIN d : TRUE
         IN  d[k] + SumValues([x \in DOMAIN d \ {k} |-> d[x]])

\* dropped_reasons.get(reason, 0)
Reason(rep, reason) ==
    IF reason \in DOMAIN rep.dropped_reasons THEN rep.dropped_reasons[reason] ELSE 0

\* The row of the model with an unreadable timestamp, an unreadable status, no
\* path and a private address at once.
ManyDefects ==
    Raw(None, StrCell("10.0.0.1"), StrCell("GET"), None, Chars(<<"a", "b", "c">>),
        IntCell(512))

\* C12: for every call of normalize_events that returns, input_rows is the length
\* of the input, output_rows the length of the returned table, and
\* dropped_rows = input_rows - output_rows = the sum of the values of
\* dropped_reasons, whatever mix of defects and duplicates the input has.
C12_ReportAccountsForEveryRow ==
    Normalized =>
        /\ report.input_rows = Len(batch)
        /\ report.output_rows = Len(df)
        /\ report.dropped_rows = report.input_rows - report.output_rows
        /\ report.dropped_rows = SumValues(report.dropped_reasons)

\* C12 witness: an input of a row with several defects at once and two equal
\* rows; two reasons are recorded and one row is returned.
C12_Witness ==
    /\ Normalized
    /\ Len(batch) = 3
    /\ \E i \in 1..3 : batch[i] = ManyDefects
    /\ Cardinality(DOMAIN report.dropped_reasons) = 2
    /\ report.dropped_rows = 2
    /\ Len(df) = 1

\* C13: the returned table is sorted by timestamp ascending (non-decreasing),
\* whatever the order of the input.
C13_SortedByTimestamp ==
    Normalized =>
        \A i \in 1..Len(df) : \A j \in 1..Len(df) :
            i < j => df[i].timestamp <= df[j].timestamp

\* C13 witness: an input at 01:05:00 then 01:00:00 is returned as 01:00:00 then
\* 01:05:00.
C13_Witness ==
    /\ Normalized
    /\ Len(batch) = 2
    /\ batch[1].timestamp = DateTime(3900) /\ batch[2].timestamp = DateTime(3600)
    /\ Len(df) = 2
    /\ df[1].timestamp = 3600 /\ df[2].timestamp = 3900

\* The rows of the input that pass the rejection steps before the duplicate
\* removal, with their cells coerced.
Survivors ==
    SelectSeq([i \in 1..Len(batch) |-> Coerce(batch[i])],
              LAMBDA r : /\ ~mask_bad_time(r)
                         /\ ~mask_bad_status(r)
                         /\ ~mask_bad_req(r)
                         /\ ~(drop_private_ips /\ private(r.ip)))

\* C14: no two returned rows are equal in the six base fields; every group of k
\* equal rows among the survivors of the earlier steps leaves exactly one row,
\* and "duplicates" counts the k - 1 others of every group (it is absent when
\* no group has two rows).
C14_NoDuplicates ==
    Normalized =>
        /\ \A i \in 1..Len(df) : \A j \in 1..Len(df) :
               i # j => Base(df[i]) # Base(df[j])
        /\ \A r \in Range(Survivors) :
               Cardinality({i \in 1..Len(df) : Base(df[i]) = astype_int(r)}) = 1
        /\ Len(df) = Cardinality(Range(Survivors))
        /\ Reason(report, "duplicates") = Len(Survivors) - Cardinality(Range(Survivors))
        /\ "duplicates" \in DOMAIN report.dropped_reasons
               <=> Len(Survivors) > Cardinality(Range(Survivors))

\* C14 witness: three rows that are equal once stripped (k = 3) leave one row
\* and duplicates = 2.
C14_Witness ==
    /\ Normalized
    /\ Len(batch) = 3
    /\ \E i \in 1..3 : batch[i].path = StrCell(" /home")
    /\ Len(Survivors) = 3
    /\ Len(df) = 1
    /\ report.dropped_reasons = ("duplicates" :> 2)

\* C15 (as claimed): normalize_events called on the table it returned, with the
\* same setting, returns the same rows in the same order (rows of one timestamp
\* included) and a report with dropped_rows = 0 and no reason.
C15_Idempotent ==
    again # None =>
        /\ again.rows = df
        /\ again.report.dropped_rows = 0
        /\ DOMAIN again.report.dropped_reasons = {}

\* C16: when one of the six required columns is missing from the input,
\* normalize_events raises: no table and no report are produced (and nothing is
\* handed to compute_metrics), whatever the rows are and also with no row.
C16_MissingColumnIsFatal ==
    (npc \in {"raised", "returned"} /\ ~(AllColumns \subseteq columns)) =>
        /\ npc = "raised"
        /\ report = None
        /\ df = <<>>
        /\ mpc = "idle"

\* C16 witness: a DataFrame with no row and no status column.
C16_Witness ==
    /\ npc = "raised"
    /\ batch = <<>>
    /\ columns = AllColumns \ {"status"}
    /\ report = None

----------------------------------------------------------------------------
(* Claims about the series and the rates of the summary (SpecMetrics) *)

RECURSIVE SumRequests(_)
\* The sum of the requests of a per-minute series.
SumRequests(series) ==
    IF series = <<>> THEN 0
    ELSE series[1].requests + SumRequests(Tail(series))

\* C17: traffic.requests_per_minute has one entry for every minute that holds an
\* event and for no other (no zero count, no minute twice), each with the number
\* of events of that minute, in strictly ascending minute order, and the counts
\* add up to meta.total_requests.
C17_RequestsPerMinute ==
    Returned =>
        LET rpm == metrics.traffic.requests_per_minute
            start(k) == ClockSeconds(rpm[k].minute)
        IN  /\ \A k \in 1..Len(rpm) :
                 /\ start(k) % 60 = 0
                 /\ rpm[k].requests = Cardinality(RowsIn(start(k), start(k) + 60))
                 /\ rpm[k].requests >= 1
            /\ \A i \in 1..Len(df) :
                 \E k \in 1..Len(rpm) : df[i].timestamp \in start(k)..(start(k) + 59)
            /\ \A k \in 1..Len(rpm) : \A l \in 1..Len(rpm) :
                 k < l => start(k) < start(l)
            /\ SumRequests(rpm) = metrics.meta.total_requests
            /\ metrics.meta.total_requests = Len(df)

\* C17 witness: two events at 01:00:00, one at 01:04:59 and one at 01:10:00 give
\* the three entries (01:00, 2), (01:04, 1), (01:10, 1), with no entry for the
\* empty minutes between them.
C17_Witness ==
    /\ Returned
    /\ Len(df) = 4
    /\ metrics.traffic.requests_per_minute =
           << [minute |-> [H |-> 1, M |-> 0, S |-> 0], requests |-> 2],
              [minute |-> [H |-> 1, M |-> 4, S |-> 0], requests |-> 1],
              [minute |-> [H |-> 1, M |-> 10, S |-> 0], requests |-> 1] >>

\* The headline numbers stats agree with the table: the counts are those of the
\* table, each rate is between 0.0 and 1.0 and is its count over total_requests
\* rounded to 6 places, 0.0 with no event of status >= 400, and 0.0 when
\* total_requests is 0.
RatesAgree(stats) ==
    /\ stats["total_requests"] = Len(df)
    /\ stats["4xx_count"] = Cardinality({i \in 1..Len(df) : df[i].status \in 400..499})
    /\ stats["5xx_count"] = Cardinality({i \in 1..Len(df) : df[i].status \in 500..599})
    /\ \A c \in {"4xx", "5xx"} :
         LET rate == stats[IF c = "4xx" THEN "4xx_rate" ELSE "5xx_rate"]
             count == stats[IF c = "4xx" THEN "4xx_count" ELSE "5xx_count"]
         IN  /\ 0 <= rate /\ rate <= 1000000
             /\ Len(df) > 0 => IsRounded6(rate, count, Len(df))
             /\ Len(df) = 0 => rate = 0
             /\ (\A i \in 1..Len(df) : df[i].status < 400) => rate = 0

\* C18: errors.overall of every summary has both rates between 0.0 and 1.0, each
\* its count divided by total_requests rounded to 6 places and 0.0 when no event
\* has status >= 400; and overall_error_stats on a table with no row, where the
\* denominator is zero, returns rates of 0.0 instead of failing.
C18_OverallRates ==
    /\ Returned => RatesAgree(metrics.errors.overall)
    /\ call # None => RatesAgree(call.result)

\* C18 witness: overall_error_stats was called on the empty table and returned
\* the rates 0.0.
C18_Witness ==
    /\ call # None
    /\ df = <<>>
    /\ call.result["total_requests"] = 0
    /\ call.result["4xx_rate"] = 0 /\ call.result["5xx_rate"] = 0

----------------------------------------------------------------------------
(* Claims about the rankings (SpecMetrics and SpecRank) *)

\* The position of the first occurrence of key in keys.
FirstOccurrence(keys, key) ==
    CHOOSE i \in 1..Len(keys) : keys[i] = key /\ \A j \in 1..(i - 1) : keys[j] # key

Occurrences(keys, key) == Cardinality({i \in 1..Len(keys) : keys[i] = key})

\* ranking is the Top-n ranking of keys, the keys of the selected rows in the
\* order of the table: every listed key once, with its number of occurrences, in
\* non-increasing order of count, the n most frequent ones (all when fewer).
IsTopN(ranking, keys, n) ==
    /\ \A k \in 1..Len(ranking) :
         /\ ranking[k].value \in Range(keys)
         /\ ranking[k].count = Occurrences(keys, ranking[k].value)
    /\ \A k \in 1..Len(ranking) : \A l \in 1..Len(ranking) :
         /\ k # l => ranking[k].value # ranking[l].value
         /\ k < l => ranking[k].count >= ranking[l].count
    /\ Len(ranking) = IF Cardinality(Range(keys)) < n THEN Cardinality(Range(keys)) ELSE n
    /\ \A key \in Range(keys) :
         (\A k \in 1..Len(ranking) : ranking[k].value # key) =>
             \A k \in 1..Len(ranking) : ranking[k].count >= Occurrences(keys, key)

\* Keys of ranking with equal counts are in the order of their first occurrence
\* in keys.
TiesInFirstOccurrenceOrder(ranking, keys) ==
    \A k \in 1..Len(ranking) : \A l \in 1..Len(ranking) :
        (k < l /\ ranking[k].count = ranking[l].count) =>
            FirstOccurrence(keys, ranking[k].value) < FirstOccurrence(keys, ranking[l].value)

\* The column col of the rows of df that satisfy the flag.
Column(table, col) == [i \in 1..Len(table) |-> table[i][col]]
Flagged(flag) == SelectSeq(df, LAMBDA r : r[flag])

\* The 5xx rows of the peak window.
PeakRows ==
    SelectSeq(df, LAMBDA r : /\ r.is_5xx
                             /\ ClockSeconds(Peak["window_start"]) <= r.timestamp
                             /\ r.timestamp < ClockSeconds(Peak["window_end"]))

\* The rankings of the summary with the keys they rank and their length limit.
Rankings ==
    { [ranking |-> metrics.traffic.top_paths_by_volume,
       keys |-> Column(df, "path"), n |-> 10],
      [ranking |-> metrics.errors.top_5xx_paths,
       keys |-> Column(Flagged("is_5xx"), "path"), n |-> 10],
      [ranking |-> metrics.clients.top_ips_by_requests,
       keys |-> Column(df, "ip"), n |-> 10],
      [ranking |-> metrics.clients.top_ips_by_4xx,
       keys |-> Column(EligibleRows(df, "is_4xx", 20), "ip"), n |-> 10],
      [ranking |-> metrics.clients.top_ips_by_5xx,
       keys |-> Column(EligibleRows(df, "is_5xx", 20), "ip"), n |-> 10] }
    \cup
    (IF Peak = None THEN {}
     ELSE {[ranking |-> Peak["top_5xx_paths"], keys |-> Column(PeakRows, "path"), n |-> 5]})

\* C19 (as claimed): every ranking of the summary lists each key once with its
\* number of occurrences among the selected rows, in non-increasing order of
\* count, cut to its N entries, and keys with equal counts are in the order of
\* their first occurrence in the table.
C19_TopNRankings ==
    Returned =>
        \A r \in Rankings :
            /\ IsTopN(r.ranking, r.keys, r.n)
            /\ TiesInFirstOccurrenceOrder(r.ranking, r.keys)


\* The rows of df of one address, and those among them with the flag.
RowsOf(ip) == {i \in 1..Len(df) : df[i].ip = ip}
FlaggedOf(ip, flag) == {i \in RowsOf(ip) : df[i][flag]}

\* C20: every address top_ips_by_4xx or top_ips_by_5xx lists has at least
\* min_requests requests of any status in the whole table, and is listed with the
\* number of its 4xx (5xx) requests, which is at least 1; an address with exactly
\* min_requests requests and such an error is listed, one with fewer never is,
\* however many errors it has.  compute_metrics calls both with min_requests 20.
C20_TopIpsNeedMinRequests ==
    call # None =>
        /\ \A k \in 1..Len(call.result) :
             LET entry == call.result[k] IN
             /\ Cardinality(RowsOf(entry.value)) >= call.min_requests
             /\ entry.count = Cardinality(FlaggedOf(entry.value, call.flag))
             /\ entry.count >= 1
        /\ \A ip \in {df[i].ip : i \in 1..Len(df)} :
             (Cardinality(RowsOf(ip)) >= call.min_requests /\ FlaggedOf(ip, call.flag) # {})
                 => \E k \in 1..Len(call.result) : call.result[k].value = ip

\* C20 witness: with min_requests 3, the address 1.1.1.1 has exactly 3 requests,
\* one of them a server error, and is listed with count 1; 2.2.2.2 has 2
\* requests, both server errors, and is not listed.
C20_Witness ==
    /\ call # None
    /\ call.fn = "top_ips_by_5xx"
    /\ call.min_requests = 3
    /\ Cardinality(RowsOf("1.1.1.1")) = 3
    /\ Cardinality(FlaggedOf("2.2.2.2", "is_5xx")) = 2
    /\ Cardinality(RowsOf("2.2.2.2")) = 2
    /\ call.result = <<[value |-> "1.1.1.1", count |-> 1]>>

----------------------------------------------------------------------------
(* Claims about the pipeline run as a whole (SpecPipeline) *)

\* C22: an input of which every row is rejected is no error for
\* normalize_events: called on a DataFrame with the required columns it returns,
\* and when no row is left it returns the empty table with a report of
\* output_rows = 0 and dropped_rows = input_rows; the failure comes only from
\* compute_metrics, once it is called on that table.
C22_EmptyOutputIsNoError ==
    /\ (npc \in {"raised", "returned"} /\ AllColumns \subseteq columns) => npc = "returned"
    /\ (npc = "returned" /\ df = <<>>) =>
           /\ report # None
           /\ report.input_rows = Len(batch)
           /\ report.output_rows = 0
           /\ report.dropped_rows = report.input_rows
           /\ mpc \in {"input", "raised"}
           /\ metrics = None

\* C22 witness: two accepted lines, both requests for the path None, are both
\* dropped; normalize_events returned the empty table and the report, and
\* compute_metrics then raised.
C22_Witness ==
    /\ Len(batch) = 2
    /\ npc = "returned"
    /\ df = <<>>
    /\ report.dropped_rows = 2
    /\ report.output_rows = 0
    /\ mpc = "raised"

----------------------------------------------------------------------------
(* Further claims about normalize_events (SpecNormalize) *)

\* The cell holds an integer or text that reads as one.
Readable(cell) == ~isna(to_numeric(cell))

\* Row i of the input has a readable timestamp, and passes every rejection step.
GoodTime(i) == TypeOf(batch[i].timestamp) = "datetime"
Passes(i) ==
    /\ GoodTime(i)
    /\ Readable(batch[i].status)
    /\ ~mask_bad_req(Coerce(batch[i]))
    /\ ~(drop_private_ips /\ private(Coerce(batch[i]).ip))

\* Row k of the output has the timestamp, address, method, path and status of row
\* i of the input.
From(k, i) ==
    /\ GoodTime(i) /\ df[k].timestamp = batch[i].timestamp.datetime
    /\ Readable(batch[i].status) /\ df[k].status = to_numeric(batch[i].status).int
    /\ df[k].ip = Coerce(batch[i]).ip
    /\ df[k].method = Coerce(batch[i]).method
    /\ df[k].path = Coerce(batch[i]).path

PrivateAddresses == {"10.0.0.1", "192.168.1.1", "172.16.0.1", "172.31.0.1"}

\* The addresses of the rows of the input, and of the output.
InputAddresses == {batch[i].ip.str : i \in 1..Len(batch)}
OutputAddresses == {df[k].ip : k \in 1..Len(df)}

\* C24 (SpecAddresses): with drop_private_ips, no output row has an address that
\* begins with "10.", "192.168." or "172.16." to "172.31.", every other address
\* of the input is still there, and private_ip counts the rows removed; without
\* it, every address of the input is in the output and there is no private_ip
\* count.
C24_PrivateAddresses ==
    Normalized =>
        IF drop_private_ips
        THEN /\ OutputAddresses = InputAddresses \ PrivateAddresses
             /\ Reason(report, "private_ip") =
                    Cardinality({i \in 1..Len(batch) : batch[i].ip.str \in PrivateAddresses})
             /\ "private_ip" \in DOMAIN report.dropped_reasons
                    <=> InputAddresses \cap PrivateAddresses # {}
        ELSE /\ OutputAddresses = InputAddresses
             /\ "private_ip" \notin DOMAIN report.dropped_reasons

\* C24 witness: with drop_private_ips, 172.31.0.1 (twice) is removed and counted,
\* 172.32.0.1 is kept.
C24_Witness ==
    /\ Normalized
    /\ drop_private_ips
    /\ Len(batch) = 3
    /\ InputAddresses = {"172.31.0.1", "172.32.0.1"}
    /\ OutputAddresses = {"172.32.0.1"}
    /\ report.dropped_reasons = ("private_ip" :> 2)


\* C25: in every row of the output, status_class is the status rounded down to a
\* multiple of 100, is_4xx holds exactly for 400 <= status < 500, is_5xx exactly
\* for 500 <= status < 600 (never both), and minute is a whole minute with
\* minute <= timestamp < minute + 60 seconds.
C25_DerivedColumns ==
    Normalized =>
        \A k \in 1..Len(df) :
            LET r == df[k] IN
            /\ r.status_class % 100 = 0
            /\ r.status_class <= r.status /\ r.status < r.status_class + 100
            /\ r.is_4xx <=> (400 <= r.status /\ r.status < 500)
            /\ r.is_5xx <=> (500 <= r.status /\ r.status < 600)
            /\ ~(r.is_4xx /\ r.is_5xx)
            /\ r.minute % 60 = 0
            /\ r.minute <= r.timestamp /\ r.timestamp < r.minute + 60

\* C25 witness: the output holds a 404 at 01:00:00 and a 500 at 01:00:59, both
\* in the minute 01:00, with the classes 400 and 500.
C25_Witness ==
    /\ Normalized
    /\ Len(df) = 2
    /\ df[1].timestamp = 3600 /\ df[1].status = 404
    /\ df[1].status_class = 400 /\ df[1].is_4xx /\ ~df[1].is_5xx /\ df[1].minute = 3600
    /\ df[2].timestamp = 3659 /\ df[2].status = 500
    /\ df[2].status_class = 500 /\ ~df[2].is_4xx /\ df[2].is_5xx /\ df[2].minute = 3600


\* The number of input rows that satisfy a test on their position.
RowsWhere(test) == Cardinality({i \in 1..Len(batch) : test[i]})

\* C26: every dropped row is counted under one reason, the first in the order bad
\* timestamp, bad status, bad request, private address, duplicate: each count is
\* the number of rows that pass the earlier tests and fail this one, so a row
\* with an unreadable timestamp and an unreadable status counts under
\* bad_timestamp alone, and the counts add up to dropped_rows.
C26_FirstReasonOnly ==
    Normalized =>
        LET bad_time == [i \in 1..Len(batch) |-> ~GoodTime(i)]
            bad_status == [i \in 1..Len(batch) |->
                              GoodTime(i) /\ ~Readable(batch[i].status)]
            bad_request == [i \in 1..Len(batch) |->
                              /\ GoodTime(i) /\ Readable(batch[i].status)
                              /\ mask_bad_req(Coerce(batch[i]))]
            private_ip == [i \in 1..Len(batch) |->
                              /\ GoodTime(i) /\ Readable(batch[i].status)
                              /\ ~mask_bad_req(Coerce(batch[i]))
                              /\ drop_private_ips /\ private(Coerce(batch[i]).ip)]
            duplicate == [i \in 1..Len(batch) |->
                              /\ Passes(i)
                              /\ \E j \in 1..(i - 1) :
                                   Passes(j) /\ Coerce(batch[j]) = Coerce(batch[i])]
        IN  /\ Reason(report, "bad_timestamp") = RowsWhere(bad_time)
            /\ Reason(report, "bad_status") = RowsWhere(bad_status)
            /\ Reason(report, "bad_request") = RowsWhere(bad_request)
            /\ Reason(report, "private_ip") = RowsWhere(private_ip)
            /\ Reason(report, "duplicates") = RowsWhere(duplicate)
            /\ SumValues(report.dropped_reasons) = report.dropped_rows

\* C26 witness: with drop_private_ips, the row that has no timestamp, an
\* unreadable status, no path and a private address is counted once, under
\* bad_timestamp, next to a row dropped as bad_status.
C26_Witness ==
    /\ Normalized
    /\ drop_private_ips
    /\ Len(batch) = 2
    /\ batch[1] = ManyDefects
    /\ report.dropped_reasons = ("bad_timestamp" :> 1) @@ ("bad_status" :> 1)
    /\ report.dropped_rows = 2

----------------------------------------------------------------------------
(* Further claims about the summary (SpecMetrics) *)

RECURSIVE SumField(_, _)
\* The sum of one field over the entries of a series.
SumField(series, field) ==
    IF series = <<>> THEN 0
    ELSE series[1][field] + SumField(Tail(series), field)

\* C27: errors.errors_per_minute has the minutes of traffic.requests_per_minute
\* in the same order, each with total equal to that minute's request count and
\* 4xx + 5xx <= total, and its totals, 4xx and 5xx add up to total_requests,
\* 4xx_count and 5xx_count of errors.overall.
C27_ErrorsPerMinute ==
    Returned =>
        LET epm == metrics.errors.errors_per_minute
            rpm == metrics.traffic.requests_per_minute
            overall == metrics.errors.overall
        IN  /\ Len(epm) = Len(rpm)
            /\ \A k \in 1..Len(epm) :
                 /\ epm[k]["minute"] = rpm[k].minute
                 /\ epm[k]["total"] = rpm[k].requests
                 /\ epm[k]["4xx"] >= 0 /\ epm[k]["5xx"] >= 0
                 /\ epm[k]["4xx"] + epm[k]["5xx"] <= epm[k]["total"]
            /\ SumField(epm, "total") = overall["total_requests"]
            /\ SumField(epm, "4xx") = overall["4xx_count"]
            /\ SumField(epm, "5xx") = overall["5xx_count"]

\* C27 witness: a success and a server error at 01:00:00 and a client error at
\* 01:04:59 give the entries (01:00, total 2, 4xx 0, 5xx 1) and
\* (01:04, total 1, 4xx 1, 5xx 0).
C27_Witness ==
    /\ Returned
    /\ Len(df) = 3
    /\ Len(metrics.errors.errors_per_minute) = 2
    /\ LET e1 == metrics.errors.errors_per_minute[1]
           e2 == metrics.errors.errors_per_minute[2]
       IN  /\ e1["minute"] = [H |-> 1, M |-> 0, S |-> 0]
           /\ e1["total"] = 2 /\ e1["4xx"] = 0 /\ e1["5xx"] = 1
           /\ e2["minute"] = [H |-> 1, M |-> 4, S |-> 0]
           /\ e2["total"] = 1 /\ e2["4xx"] = 1 /\ e2["5xx"] = 0

----------------------------------------------------------------------------
(* The caller's DataFrames across the calls (SpecFrame) *)

\* normalize_events and then compute_metrics on DataFrames made of a clean row,
\* a server error, and three rows whose cells the coercion rewrites: a status
\* given as text, a padded method and path, and an unreadable timestamp.
FrameRows ==
    { Raw(DateTime(3900), StrCell("1.1.1.1"), StrCell("GET"), StrCell("/home"),
          IntCell(200), IntCell(512)),
      Raw(DateTime(3900), StrCell("2.2.2.2"), StrCell("GET"), StrCell("/api/login"),
          IntCell(500), IntCell(512)),
      Raw(DateTime(3659), StrCell("2.2.2.2"), StrCell("GET"), StrCell("/home"),
          Chars(<<"5", "0", "0">>), IntCell(512)),
      Raw(DateTime(3900), StrCell("1.1.1.1"), StrCell("GET "), StrCell(" /home"),
          IntCell(200), IntCell(512)),
      Raw(Chars(<<"y", "e", "s">>), StrCell("1.1.1.1"), StrCell("GET"), StrCell("/home"),
          IntCell(200), IntCell(512)) }

NextFrame ==
    \/ \E raw \in FrameRows : AddRaw(raw)
    \/ \E cols \in ColumnSets, drop \in BOOLEAN : Normalize(cols, drop)
    \/ ComputeMetrics

SpecFrame == InitNormalize /\ [][NextFrame]_vars

\* The columns of a table of rows (none while it has no row).
ColumnsOf(table) == IF table = <<>> THEN {} ELSE DOMAIN table[1]

\* C28: normalize_events and compute_metrics (peak_5xx_window_5m included) leave
\* the DataFrame passed to them as it was, whether they return or raise: the
\* same rows in the same order with the same values, and the same columns.
C28_InputUnchanged ==
    [][ /\ (npc = "input" /\ npc' \in {"returned", "raised"})
           => batch' = batch
        /\ (mpc = "input" /\ mpc' \in {"returned", "raised"})
           => df' = df /\ ColumnsOf(df') = ColumnsOf(df) ]_vars

\* Both calls have returned: normalize_events on a DataFrame with a status given
\* as text, which the coercion rewrites, and compute_metrics on a table with a 5xx row, for which
\* peak_5xx_window_5m assigns window_5m.
C28_Witness ==
    /\ npc = "returned"
    /\ mpc = "returned"
    /\ \E i \in 1..Len(batch) : TypeOf(batch[i].status) = "chars"
    /\ CountTrue(df, "is_5xx") > 0
    /\ metrics.errors.peak_5xx_window_5m # None

----------------------------------------------------------------------------
(* scripts/validate_all.py *)

\* The largest --runs the model passes to validate_all.py.
MaxRuns == 2

\* Step(name, cmd): the script of the command and the arguments after it.
Step(name, script, argv) == [name |-> name, script |-> script, argv |-> argv]

\* The list steps of main: four steps, and the stability evaluation unless
\* --skip-stability is given.
steps(a) ==
    << Step("Ingest validation", "scripts/validate_ingest.py", <<>>),
       Step("Metrics validation", "scripts/validate_metrics.py", <<>>),
       Step("Report generation", "scripts/generate_report.py", <<>>),
       Step("Report validation", "scripts/validate_report.py", <<>> ) >>
    \o (IF ~a.skip_stability
        THEN <<Step("Stability evaluation", "scripts/eval_stability.py",
                    <<"--runs", a.runs>>)>>
        ELSE <<>>)

\* What subprocess.run(step.cmd) may do: return a CompletedProcess with a return
\* code (0, or one of two others), or raise because the command cannot be started.
Outcomes ==
    {[raised |-> FALSE, returncode |-> c] : c \in {0, 1, 2}}
    \cup {[raised |-> TRUE, returncode |-> 0]}

\* run_step(step) raises: subprocess.run raised, or res.returncode != 0.
run_step_raises(res) == res.raised \/ res.returncode # 0

\* Mutant of fail_fast: the break is missing, the loop goes on to the next step.
fail_fast_missing(i, list) == i + 1

\* break  # fail fast: the loop position after the except branch is past the
\* last step.
fail_fast(i, list) == Len(list) + 1

\* One iteration of "for step in steps": run_step, and PASS, or FAIL with the
\* step's name appended to failures and the loop left.
RunStep(res) ==
    /\ vpc = "loop"
    /\ step_no <= Len(steps(args))
    /\ LET step == steps(args)[step_no] IN
         /\ ran' = Append(ran, [name |-> step.name, script |-> step.script,
                                raised |-> res.raised, returncode |-> res.returncode])
         /\ IF run_step_raises(res)
            THEN /\ failures' = Append(failures, step.name)
                 /\ step_no' = fail_fast(step_no, steps(args))
            ELSE /\ UNCHANGED failures
                 /\ step_no' = step_no + 1
    /\ vpc' = IF step_no' > Len(steps(args)) THEN "summary" ELSE "loop"
    /\ UNCHANGED <<args, exit_code>>
    /\ UNCHANGED <<rerun, spc, metrics_json, gpc>>
    /\ UNCHANGED <<parseVars, metricsVars, normVars, call>>

\* The summary after the loop: return 0 with no failure, else return 1.
Summary ==
    /\ vpc = "summary"
    /\ vpc' = "exited"
    /\ exit_code' = IF failures = <<>> THEN 0 ELSE 1
    /\ UNCHANGED <<args, step_no, ran, failures>>
    /\ UNCHANGED <<rerun, spc, metrics_json, gpc>>
    /\ UNCHANGED <<parseVars, metricsVars, normVars, call>>

InitValidateAll ==
    /\ args \in [runs : 1..MaxRuns, skip_stability : BOOLEAN]
    /\ step_no = 1
    /\ ran = <<>>
    /\ failures = <<>>
    /\ vpc = "loop"
    /\ exit_code = 0
    /\ rerun = None
    /\ spc = "idle"
    /\ metrics_json = None
    /\ gpc = "idle"
    /\ f = <<>>
    /\ max_bad_lines = 0
    /\ rows = <<>>
    /\ bad_lines = 0
    /\ ppc = "reading"
    /\ parsed = <<>>
    /\ df = <<>>
    /\ mpc = "idle"
    /\ metrics = None
    /\ batch = <<>>
    /\ columns = {}
    /\ drop_private_ips = FALSE
    /\ npc = "idle"
    /\ report = None
    /\ again = None
    /\ call = None

NextValidateAll == (\E res \in Outcomes : RunStep(res)) \/ Summary

SpecValidateAll == InitValidateAll /\ [][NextValidateAll]_vars

----------------------------------------------------------------------------
(* Claims about validate_all.py, checked under SpecValidateAll *)

\* The order the documentation of validate_all.py gives.
FixedOrder ==
    << "Ingest validation", "Metrics validation", "Report generation",
       "Report validation", "Stability evaluation" >>

\* The step started k-th failed: it could not be started, or exited non-zero.
FailedStep(k) == ran[k].raised \/ ran[k].returncode # 0

\* C29: validate_all runs ingest validation, metrics validation, report
\* generation, report validation and (unless skipped) stability evaluation in
\* this order; a step starts only after every earlier step exited with code 0,
\* no step runs after the first failing one, and main returns 1 exactly when
\* some step failed and 0 otherwise (then every step has run).
C29_FixedOrderFailFast ==
    /\ Len(ran) <= Len(FixedOrder)
    /\ \A k \in 1..Len(ran) :
         /\ ran[k].name = FixedOrder[k]
         /\ args.skip_stability => ran[k].name # "Stability evaluation"
         /\ \A j \in 1..(k - 1) : ~ran[j].raised /\ ran[j].returncode = 0
    /\ vpc = "exited" =>
         /\ exit_code \in {0, 1}
         /\ exit_code = 1 <=> \E k \in 1..Len(ran) : FailedStep(k)
         /\ exit_code = 0 =>
              Len(ran) = (IF args.skip_stability THEN 4 ELSE 5)

\* main has returned 1 after report generation, the third step, exited non-zero
\* behind two steps that exited with 0.
C29_Witness ==
    /\ vpc = "exited"
    /\ exit_code = 1
    /\ Len(ran) = 3
    /\ ran[3].name = "Report generation"
    /\ ran[3].returncode # 0

----------------------------------------------------------------------------
(* scripts/validate_metrics.py and scripts/generate_report.py *)

\* d[key] raises KeyError: the dict has no such key.
KeyError(d, key) == key \notin DOMAIN d

\* json.dump(obj, f): the text of the file, from which json.loads gives obj back
\* (the summary holds dicts with string keys, lists, strings, numbers and None).
json_dump(obj) == [text |-> obj]
json_loads(file) == file.text

\* validate_metrics.py after "metrics = compute_metrics(df)" has returned: the
\* print of metrics["traffic"]["baseline_5m"] (line 15), and behind it the
\* creation of artifacts/ and the dump to artifacts/metrics.json (22 to 25). The
\* later prints read keys compute_metrics sets.
ValidateMetricsTail ==
    /\ mpc = "returned"
    /\ spc = "idle"
    /\ IF KeyError(metrics.traffic, "baseline_5m")
       THEN spc' = "KeyError" /\ UNCHANGED metrics_json
       ELSE spc' = "exited" /\ metrics_json' = json_dump(metrics)
    /\ UNCHANGED <<rerun, validateAllVars, gpc>>
    /\ UNCHANGED <<parseVars, metricsVars, normVars, call>>

\* generate_report.py, run after validate_metrics.py has ended: main raises
\* FileNotFoundError without artifacts/metrics.json and else loads it.
GenerateReport ==
    /\ spc \in {"KeyError", "exited"}
    /\ gpc = "idle"
    /\ gpc' = IF metrics_json = None THEN "FileNotFoundError" ELSE "loaded"
    /\ UNCHANGED <<rerun, validateAllVars, spc, metrics_json>>
    /\ UNCHANGED <<parseVars, metricsVars, normVars, call>>

NextScripts ==
    \/ \E line \in PipelineLines : ReadLine(line)
    \/ EndOfFile
    \/ NormalizeParsed
    \/ ComputeMetrics
    \/ ValidateMetricsTail
    \/ GenerateReport

SpecScripts == InitPipeline /\ [][NextScripts]_vars

\* C30: validate_metrics.py, on a log for which parsing, normalization and
\* compute_metrics succeed, does not fail behind compute_metrics and writes the
\* summary to artifacts/metrics.json, so that generate_report.py finds the file.
C30_MetricsFileWritten ==
    /\ (mpc = "returned" /\ spc # "idle") =>
           /\ spc = "exited"
           /\ metrics_json # None
           /\ json_loads(metrics_json) = metrics
    /\ gpc # "idle" => gpc = "loaded"

----------------------------------------------------------------------------
(* The pipeline run twice on the same file (SpecRerun) *)

\* One iteration of the loop of parse_nginx_log on the locals of a call (rows,
\* bad_lines, and whether the loop has raised): what ReadLine does to the
\* variables of the first run.
loop_body(locals, line, max_bad) ==
    IF locals.ppc # "reading" THEN locals
    ELSE LET outcome == Classify(line) IN
         CASE outcome = "skip" -> locals
           [] outcome = "row" ->
                [locals EXCEPT !.rows = Append(@, RowOf(line))]
           [] OTHER ->
                [locals EXCEPT
                   !.bad_lines = @ + 1,
                   !.ppc = IF ChecksThreshold(outcome)
                              /\ locals.bad_lines + 1 > max_bad
                           THEN "abort" ELSE "reading"]

RECURSIVE parse_loop(_, _)
\* The locals of a call of parse_nginx_log after the loop over the lines: every
\* call starts from rows = [] and bad_lines = 0 (the function keeps nothing
\* between calls).
parse_loop(lines, max_bad) ==
    IF lines = <<>> THEN [rows |-> <<>>, bad_lines |-> 0, ppc |-> "reading"]
    ELSE loop_body(parse_loop(SubSeq(lines, 1, Len(lines) - 1), max_bad),
                   lines[Len(lines)], max_bad)

\* parse -> normalize_events -> compute_metrics once more on the file of the
\* first run, behind the first run: the stage that raised, or the rows, the
\* report and the summary. Each sort of the second run is a choice of its own
\* among the orders an unstable sort may return.
RunAgain ==
    /\ ppc = "returned"
    /\ npc = "returned"
    /\ mpc = "returned"
    /\ rerun = None
    /\ LET locals == parse_loop(f, max_bad_lines) IN
         IF locals.ppc # "reading" \/ locals.rows = <<>>
         THEN rerun' = [raised |-> "parse_nginx_log"]
         ELSE \E order \in SortByTimestamp(locals.rows) :
                LET df_raw == [k \in 1..Len(locals.rows) |->
                                  AsInput(ParsedRow(locals.rows[order[k]]))]
                IN  \E result \in normalize_events(df_raw, FALSE) :
                      IF result.rows = <<>>
                      THEN rerun' = [raised |-> "compute_metrics"]
                      ELSE \E summary \in compute_metrics(result.rows) :
                             rerun' = [rows |-> result.rows,
                                       report |-> result.report,
                                       summary |-> summary]
    /\ UNCHANGED <<validateAllVars, spc, metrics_json, gpc>>
    /\ UNCHANGED <<parseVars, metricsVars, normVars, call>>

NextRerun ==
    \/ \E line \in PipelineLines : ReadLine(line)
    \/ EndOfFile
    \/ NormalizeParsed
    \/ ComputeMetrics
    \/ RunAgain

SpecRerun == InitPipeline /\ [][NextRerun]_vars

RerunAgreesUpToTies ==
    rerun # None =>
        /\ DOMAIN rerun = {"rows", "report", "summary"}
        /\ rerun.rows = df
        /\ rerun.report = report
        /\ rerun.summary.meta = metrics.meta
        /\ rerun.summary.traffic.requests_per_minute
             = metrics.traffic.requests_per_minute
        /\ Range(rerun.summary.traffic.top_paths_by_volume)
             = Range(metrics.traffic.top_paths_by_volume)
        /\ rerun.summary.errors.overall = metrics.errors.overall
        /\ rerun.summary.errors.errors_per_minute = metrics.errors.errors_per_minute
        /\ Range(rerun.summary.errors.top_5xx_paths)
             = Range(metrics.errors.top_5xx_paths)
        /\ Range(rerun.summary.clients.top_ips_by_requests)
             = Range(metrics.clients.top_ips_by_requests)
        /\ rerun.summary.clients.top_ips_by_5xx = metrics.clients.top_ips_by_5xx
        /\ rerun.summary.clients.top_ips_by_4xx = metrics.clients.top_ips_by_4xx

=============================================================================
